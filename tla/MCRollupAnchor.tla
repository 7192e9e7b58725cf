---------------------------- MODULE MCRollupAnchor ----------------------------
(***************************************************************************)
(* Instances of RollupAnchor for TLC: a few calls chosen to interfere.     *)
(***************************************************************************)
EXTENDS RollupAnchor

CONSTANTS adm, att, counter, msg, ok, bad, this, other

MCAccounts == {adm, att}
MCAppKeys == {counter}
MCPayload == {msg}
MCReplies == {ok, bad}
MCRefused == {bad}
MCDestinations == {this, other}

NoConditions == [k \in Keys |-> Undefined]
NoUpdates == [k \in AppKeys \cup {VersionKey} |-> Undefined]

Reply(m) == [type |-> "reply", reply |-> m]
SetHead(n) == [type |-> "head", target |-> n]
Grant(a) == [type |-> "grant", account |-> a]
Revoke(a) == [type |-> "revoke", account |-> a]

\* A commit of a client at the first version: it answers the first message.
Answer ==
  [conditions |-> [NoConditions EXCEPT ![VersionKey] = NoValue],
   updates |-> [NoUpdates EXCEPT ![VersionKey] = 1, ![counter] = 1],
   actions |-> <<SetHead(1), Reply(ok)>>]

\* An update and a role change followed by a reply the application refuses.
GrantAndFail ==
  [conditions |-> NoConditions, updates |-> [NoUpdates EXCEPT ![counter] = 2],
   actions |-> <<Grant(att), SetHead(1), Reply(bad)>>]

\* An attestor revokes itself, and goes on.
HandOver ==
  [conditions |-> NoConditions, updates |-> NoUpdates,
   actions |-> <<Revoke(adm), Grant(att), Reply(ok)>>]

\* The head is moved twice, the second time backwards.
BackAndForth ==
  [conditions |-> [NoConditions EXCEPT ![counter] = 1],
   updates |-> [NoUpdates EXCEPT ![counter] = NoValue],
   actions |-> <<SetHead(2), SetHead(1)>>]

MCCalls == {Answer, GrantAndFail, HandOver, BackAndForth}
MCCallsEvm == {Answer, HandOver, BackAndForth}
=============================================================================
