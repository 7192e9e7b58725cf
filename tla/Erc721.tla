-------------------------------- MODULE Erc721 --------------------------------
(***************************************************************************)
(* The tokens whose max_attempts attribute decides how many guesses their  *)
(* owner has.  A call that answers an error is reverted, so each message   *)
(* of the contract is an action that is enabled when it succeeds.  A       *)
(* mapping is a function with the value None where it has no entry.        *)
(***************************************************************************)
EXTENDS Naturals, FiniteSets

CONSTANTS
  Accounts,   \* the addresses
  Zero,       \* the address 0x0, which nobody calls from
  TokenIds,   \* the ids a token can be minted with
  Limits,     \* the values of max_attempts
  None,       \* no entry in a mapping
  MaxCount    \* the largest number of tokens of an account (u32::MAX)

Callers == Accounts \ {Zero}

ASSUME Erc721Assumption ==
  /\ Zero \in Accounts /\ None \notin Accounts /\ None \notin Limits /\ None \notin Nat
  /\ MaxCount \in Nat \ {0}
  /\ IsFiniteSet(TokenIds)

VARIABLES
  token_owner,          \* token_owner[id] is the owner of a token
  token_approvals,      \* token_approvals[id] may transfer the token, too
  owned_tokens_count,   \* owned_tokens_count[a] is the number of tokens of a
  operator_approvals,   \* the pairs <<owner, operator>>
  max_attempts,         \* max_attempts[id] is the attribute of a token
  approved_by           \* history: the owner when token_approvals[id] was set

vars == <<token_owner, token_approvals, owned_tokens_count, operator_approvals,
          max_attempts, approved_by>>

TypeOK ==
  /\ token_owner \in [TokenIds -> Callers \cup {None}]
  /\ token_approvals \in [TokenIds -> Callers \cup {None}]
  /\ owned_tokens_count \in [Accounts -> 0 .. MaxCount \cup {None}]
  /\ operator_approvals \subseteq Callers \X Accounts
  /\ max_attempts \in [TokenIds -> Limits \cup {None}]
  /\ approved_by \in [TokenIds -> Callers \cup {None}]

Init ==
  /\ token_owner = [id \in TokenIds |-> None]
  /\ token_approvals = [id \in TokenIds |-> None]
  /\ owned_tokens_count = [a \in Accounts |-> None]
  /\ operator_approvals = {}
  /\ max_attempts = [id \in TokenIds |-> None]
  /\ approved_by = [id \in TokenIds |-> None]

-----------------------------------------------------------------------------
(* The helpers, on the values of the mappings they read or write.          *)

\* Mutant: the first token of an account is not counted.
AddedForgetsFirst(counts, a) ==
  [counts EXCEPT ![a] = IF @ = None THEN 0 ELSE @ + 1]

\* The count in add_token_to.
Added(counts, a) == [counts EXCEPT ![a] = IF @ = None THEN 1 ELSE @ + 1]

\* Mutant: the addition wraps.
CanAddAlways(counts, a) == TRUE

\* checked_add(1).unwrap() does not panic.
CanAdd(counts, a) == counts[a] # None => counts[a] < MaxCount

\* The count in remove_token_from and burn.
Removed(counts, a) == [counts EXCEPT ![a] = @ - 1]

\* The entry exists and checked_sub(1).unwrap() does not panic.
CanRemove(counts, a) == counts[a] # None /\ counts[a] # 0

\* Mutant: the approval of a token stays when the token moves.
Kept(approvals, id) == approvals

\* clear_approval.
Cleared(approvals, id) == [approvals EXCEPT ![id] = None]

ApprovedForAll(owner, operator) == <<owner, operator>> \in operator_approvals

ApprovedOrOwner(from, id, owner) ==
  /\ from # Zero
  /\ from = owner \/ token_approvals[id] = from \/ ApprovedForAll(owner, from)

-----------------------------------------------------------------------------
(* The messages.                                                           *)

SetApprovalForAll(caller, to, approved) ==
  /\ to # caller
  /\ operator_approvals' = IF approved THEN operator_approvals \cup {<<caller, to>>}
                           ELSE operator_approvals \ {<<caller, to>>}
  /\ UNCHANGED <<token_owner, token_approvals, owned_tokens_count, max_attempts, approved_by>>

\* An approval can be set once: a second one is refused until the token moves.
Approve(caller, to, id) ==
  LET owner == token_owner[id] IN
  /\ owner # None
  /\ owner = caller \/ ApprovedForAll(owner, caller)
  /\ to # Zero
  /\ token_approvals[id] = None
  /\ token_approvals' = [token_approvals EXCEPT ![id] = to]
  /\ approved_by' = [approved_by EXCEPT ![id] = owner]
  /\ UNCHANGED <<token_owner, owned_tokens_count, operator_approvals, max_attempts>>

\* transfer_from; transfer is the case from = caller.
TransferFrom(caller, from, to, id) ==
  LET removed == Removed(owned_tokens_count, from) IN
  /\ token_owner[id] = from /\ ApprovedOrOwner(caller, id, from)
  /\ CanRemove(owned_tokens_count, from)
  /\ to # Zero /\ CanAdd(removed, to)
  /\ token_approvals' = Cleared(token_approvals, id)
  /\ owned_tokens_count' = Added(removed, to)
  /\ token_owner' = [token_owner EXCEPT ![id] = to]
  /\ UNCHANGED <<operator_approvals, max_attempts, approved_by>>

\* The id is free if it has no attribute; add_token_to asks for no owner.
Mint(caller, id, limit) ==
  /\ max_attempts[id] = None /\ token_owner[id] = None
  /\ CanAdd(owned_tokens_count, caller)
  /\ max_attempts' = [max_attempts EXCEPT ![id] = limit]
  /\ owned_tokens_count' = Added(owned_tokens_count, caller)
  /\ token_owner' = [token_owner EXCEPT ![id] = caller]
  /\ UNCHANGED <<token_approvals, operator_approvals, approved_by>>

\* Mutant: the attribute of a burnt token stays.
BurnKeepsAttribute(caller, id) ==
  /\ token_owner[id] = caller /\ max_attempts[id] # None
  /\ CanRemove(owned_tokens_count, caller)
  /\ owned_tokens_count' = Removed(owned_tokens_count, caller)
  /\ token_owner' = [token_owner EXCEPT ![id] = None]
  /\ token_approvals' = Cleared(token_approvals, id)
  /\ UNCHANGED <<max_attempts, operator_approvals, approved_by>>

Burn(caller, id) ==
  /\ token_owner[id] = caller /\ max_attempts[id] # None
  /\ CanRemove(owned_tokens_count, caller)
  /\ owned_tokens_count' = Removed(owned_tokens_count, caller)
  /\ token_owner' = [token_owner EXCEPT ![id] = None]
  /\ max_attempts' = [max_attempts EXCEPT ![id] = None]
  /\ token_approvals' = Cleared(token_approvals, id)
  /\ UNCHANGED <<operator_approvals, approved_by>>

Next ==
  \E caller \in Callers :
    \/ \E to \in Accounts, approved \in BOOLEAN : SetApprovalForAll(caller, to, approved)
    \/ \E id \in TokenIds :
         \/ \E to \in Accounts : Approve(caller, to, id)
         \/ \E from \in Callers, to \in Accounts : TransferFrom(caller, from, to, id)
         \/ \E limit \in Limits : Mint(caller, id, limit)
         \/ Burn(caller, id)

Spec == Init /\ [][Next]_vars

-----------------------------------------------------------------------------
(* Properties.                                                             *)

Owned(a) == {id \in TokenIds : token_owner[id] = a}

\* The balance of an account is the number of tokens it owns, after any
\* sequence of mints, burns and transfers, those to oneself included: the
\* two counts of a transfer are read and written one after the other, and no
\* burn or transfer fails because a count is missing or zero.
CountsMatch ==
  \A a \in Accounts :
    /\ owned_tokens_count[a] = None => Owned(a) = {}
    /\ owned_tokens_count[a] # None => owned_tokens_count[a] = Cardinality(Owned(a))

\* The five mappings agree on which tokens exist: a token has an attribute if
\* and only if it has an owner, so an id is never lost to mint, which looks at
\* the attribute, nor to burn, which looks at both; a token that was burnt
\* leaves no approval to the next owner of its id.
TokensConsistent ==
  \A id \in TokenIds :
    /\ token_owner[id] = None <=> max_attempts[id] = None
    /\ token_owner[id] = None => token_approvals[id] = None

\* Whoever is approved for a token was approved on behalf of its present
\* owner: an approval does not survive a transfer or a burn.
ApprovalsOfOwner ==
  \A id \in TokenIds : token_approvals[id] # None => approved_by[id] = token_owner[id]
=============================================================================
