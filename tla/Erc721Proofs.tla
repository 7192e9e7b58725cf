----------------------------- MODULE Erc721Proofs -----------------------------
(***************************************************************************)
(* The tokens, for any accounts, ids and attributes: the four invariants   *)
(* of Erc721 are inductive together.  The count of an account follows the  *)
(* set of its tokens element by element, so the proof adds and removes one *)
(* token at a time (FS_AddElement, FS_RemoveElement).                      *)
(***************************************************************************)
EXTENDS Erc721, FiniteSetTheorems, TLAPS

IInv == TypeOK /\ CountsMatch /\ TokensConsistent /\ ApprovalsOfOwner

\* The tokens that owner gives a, for any mapping owner.
TokensOf(owner, a) == {id \in TokenIds : owner[id] = a}

\* CountsMatch for any mappings: balances are the numbers of tokens.
Matches(counts, owner) ==
  \A a \in Accounts :
    /\ counts[a] = None => TokensOf(owner, a) = {}
    /\ counts[a] # None => counts[a] = Cardinality(TokensOf(owner, a))

\* The tokens of an account are finitely many.
LEMMA FiniteTokens ==
  ASSUME NEW owner, NEW a
  PROVE  /\ IsFiniteSet(TokensOf(owner, a))
         /\ Cardinality(TokensOf(owner, a)) \in Nat
<1>1. TokensOf(owner, a) \in SUBSET TokenIds
  BY DEF TokensOf
<1>2. IsFiniteSet(TokensOf(owner, a))
  BY <1>1, FS_Subset, Erc721Assumption
<1> QED
  BY <1>2, FS_CardinalityType

\* Added is right when a token that had no owner is given to to.
LEMMA AddedMatches ==
  ASSUME NEW counts \in [Accounts -> 0 .. MaxCount \cup {None}],
         NEW owner \in [TokenIds -> Callers \cup {None}],
         NEW to \in Callers, NEW id \in TokenIds,
         owner[id] = None, Matches(counts, owner), CanAdd(counts, to)
  PROVE  /\ Added(counts, to) \in [Accounts -> 0 .. MaxCount \cup {None}]
         /\ Matches(Added(counts, to), [owner EXCEPT ![id] = to])
<1> DEFINE new == [owner EXCEPT ![id] = to]
           count == IF counts[to] = None THEN 1 ELSE counts[to] + 1
<1>1. to \in Accounts /\ to # None /\ None \notin Nat /\ None \notin Accounts
      /\ MaxCount \in Nat \ {0}
  BY Erc721Assumption DEF Callers
<1>2. count \in 0 .. MaxCount
  BY <1>1 DEF CanAdd
<1>3. Added(counts, to) = [counts EXCEPT ![to] = count]
  BY <1>1 DEF Added
<1>4. Added(counts, to) \in [Accounts -> 0 .. MaxCount \cup {None}]
  BY <1>2, <1>3
<1>5. TokensOf(new, to) = TokensOf(owner, to) \cup {id} /\ id \notin TokensOf(owner, to)
  BY <1>1 DEF TokensOf
<1>6. Cardinality(TokensOf(new, to)) = Cardinality(TokensOf(owner, to)) + 1
  BY <1>5, FiniteTokens, FS_AddElement
<1>7. Cardinality(TokensOf(new, to)) = count
  <2>1. CASE counts[to] = None
    <3>1. TokensOf(owner, to) = {}
      BY <2>1, <1>1 DEF Matches
    <3> QED
      BY <3>1, <2>1, <1>6, FS_EmptySet
  <2>2. CASE counts[to] # None
    BY <2>2, <1>1, <1>6 DEF Matches
  <2> QED
    BY <2>1, <2>2
<1>8. ASSUME NEW a \in Accounts
      PROVE  /\ Added(counts, to)[a] = None => TokensOf(new, a) = {}
             /\ Added(counts, to)[a] # None
                  => Added(counts, to)[a] = Cardinality(TokensOf(new, a))
  <2>1. CASE a = to
    BY <2>1, <1>1, <1>2, <1>3, <1>7
  <2>2. CASE a # to
    <3>1. TokensOf(new, a) = TokensOf(owner, a) /\ Added(counts, to)[a] = counts[a]
      BY <2>2, <1>1, <1>3 DEF TokensOf
    <3> QED
      BY <3>1 DEF Matches
  <2> QED
    BY <2>1, <2>2
<1> QED
  BY <1>4, <1>8 DEF Matches

\* Removed is right when a token of from is taken away, and its count is
\* there and above zero: neither error of remove_token_from can occur.
LEMMA RemovedMatches ==
  ASSUME NEW counts \in [Accounts -> 0 .. MaxCount \cup {None}],
         NEW owner \in [TokenIds -> Callers \cup {None}],
         NEW from \in Callers, NEW id \in TokenIds,
         owner[id] = from, Matches(counts, owner)
  PROVE  /\ CanRemove(counts, from)
         /\ Removed(counts, from) \in [Accounts -> 0 .. MaxCount \cup {None}]
         /\ Matches(Removed(counts, from), [owner EXCEPT ![id] = None])
<1> DEFINE new == [owner EXCEPT ![id] = None]
<1>1. from \in Accounts /\ from # None /\ None \notin Nat /\ None \notin Accounts
      /\ MaxCount \in Nat \ {0}
  BY Erc721Assumption DEF Callers
<1>2. TokensOf(new, from) = TokensOf(owner, from) \ {id} /\ id \in TokensOf(owner, from)
  BY <1>1 DEF TokensOf
<1>3. counts[from] # None /\ counts[from] = Cardinality(TokensOf(owner, from))
  BY <1>1, <1>2 DEF Matches
<1>4. Cardinality(TokensOf(new, from)) = counts[from] - 1
  BY <1>2, <1>3, FiniteTokens, FS_RemoveElement
<1>5. Cardinality(TokensOf(new, from)) \in Nat
  BY FiniteTokens
<1>6. counts[from] \in 1 .. MaxCount
  BY <1>1, <1>3, <1>4, <1>5
<1>7. CanRemove(counts, from)
  BY <1>1, <1>6 DEF CanRemove
<1>8. Removed(counts, from) \in [Accounts -> 0 .. MaxCount \cup {None}]
  BY <1>1, <1>6 DEF Removed
<1>9. ASSUME NEW a \in Accounts
      PROVE  /\ Removed(counts, from)[a] = None => TokensOf(new, a) = {}
             /\ Removed(counts, from)[a] # None
                  => Removed(counts, from)[a] = Cardinality(TokensOf(new, a))
  <2>1. CASE a = from
    BY <2>1, <1>1, <1>4, <1>6 DEF Removed
  <2>2. CASE a # from
    <3>1. TokensOf(new, a) = TokensOf(owner, a) /\ Removed(counts, from)[a] = counts[a]
      BY <2>2, <1>1 DEF TokensOf, Removed
    <3> QED
      BY <3>1 DEF Matches
  <2> QED
    BY <2>1, <2>2
<1> QED
  BY <1>7, <1>8, <1>9 DEF Matches

\* CountsMatch is Matches of the two mappings of the contract.
LEMMA CountsAreMatches == CountsMatch <=> Matches(owned_tokens_count, token_owner)
  BY DEF CountsMatch, Matches, Owned, TokensOf

\* No mapping has an entry in a new contract.
LEMMA InitIInv == Init => IInv
<1> SUFFICES ASSUME Init PROVE IInv
  OBVIOUS
<1>1. None \notin Callers
  BY Erc721Assumption DEF Callers
<1>2. TypeOK /\ TokensConsistent /\ ApprovalsOfOwner
  BY DEF Init, TypeOK, TokensConsistent, ApprovalsOfOwner
<1>3. ASSUME NEW a \in Accounts PROVE Owned(a) = {} /\ owned_tokens_count[a] = None
  BY <1>3, Erc721Assumption DEF Init, Owned
<1> QED
  BY <1>2, <1>3 DEF IInv, CountsMatch

\* Every message keeps the four invariants.
LEMMA NextIInv == IInv /\ [Next]_vars => IInv'
<1> SUFFICES ASSUME IInv, [Next]_vars PROVE IInv'
  OBVIOUS
<1> USE DEF IInv
<1>1. None \notin Callers /\ Callers \subseteq Accounts /\ Zero \notin Callers
      /\ None \notin Limits
  BY Erc721Assumption DEF Callers
<1>2. Matches(owned_tokens_count, token_owner)
  BY CountsAreMatches
<1>3. ASSUME NEW caller \in Callers, NEW to \in Accounts, NEW approved \in BOOLEAN,
             SetApprovalForAll(caller, to, approved)
      PROVE  IInv'
  <2>1. UNCHANGED <<token_owner, token_approvals, owned_tokens_count, max_attempts, approved_by>>
    BY <1>3 DEF SetApprovalForAll
  <2>2. operator_approvals' \subseteq Callers \X Accounts
    BY <1>3 DEF SetApprovalForAll, TypeOK
  <2>3. TypeOK'
    BY <2>1, <2>2 DEF TypeOK
  <2>4. CountsMatch'
    BY <2>1 DEF CountsMatch, Owned
  <2>5. TokensConsistent' /\ ApprovalsOfOwner'
    BY <2>1 DEF TokensConsistent, ApprovalsOfOwner
  <2> QED
    BY <2>3, <2>4, <2>5
<1>4. ASSUME NEW caller \in Callers, NEW to \in Accounts, NEW id \in TokenIds,
             Approve(caller, to, id)
      PROVE  IInv'
  <2>1. to \in Callers /\ token_owner[id] \in Callers
    BY <1>4 DEF Approve, Callers, TypeOK
  <2>2. TypeOK'
    BY <1>4, <2>1 DEF Approve, TypeOK
  <2>3. CountsMatch'
    BY <1>4 DEF Approve, CountsMatch, Owned
  <2>4. TokensConsistent' /\ ApprovalsOfOwner'
    BY <1>4, <2>1, <1>1 DEF Approve, TypeOK, TokensConsistent, ApprovalsOfOwner
  <2> QED
    BY <2>2, <2>3, <2>4
<1>5. ASSUME NEW caller \in Callers, NEW from \in Callers, NEW to \in Accounts,
             NEW id \in TokenIds, TransferFrom(caller, from, to, id)
      PROVE  IInv'
  <2> DEFINE between == [token_owner EXCEPT ![id] = None]
             removed == Removed(owned_tokens_count, from)
  <2>1. to \in Callers
    BY <1>5 DEF TransferFrom, Callers
  <2>2. removed \in [Accounts -> 0 .. MaxCount \cup {None}] /\ Matches(removed, between)
    BY <1>2, <1>5, RemovedMatches DEF TransferFrom, TypeOK
  <2>3. between \in [TokenIds -> Callers \cup {None}] /\ between[id] = None
    BY DEF TypeOK
  <2>4. CanAdd(removed, to)
    BY <1>5 DEF TransferFrom
  <2>5. /\ Added(removed, to) \in [Accounts -> 0 .. MaxCount \cup {None}]
        /\ Matches(Added(removed, to), [between EXCEPT ![id] = to])
    BY <2>1, <2>2, <2>3, <2>4, AddedMatches
  <2>6. /\ owned_tokens_count' = Added(removed, to)
        /\ token_owner' = [between EXCEPT ![id] = to]
    BY <1>5 DEF TransferFrom, TypeOK
  <2>7. CountsMatch'
    <3>1. Matches(owned_tokens_count', token_owner')
      BY <2>5, <2>6
    <3> QED
      BY <3>1 DEF CountsMatch, Matches, Owned, TokensOf
  <2>8. TypeOK'
    <3>1. token_owner' \in [TokenIds -> Callers \cup {None}]
      BY <1>5, <2>1 DEF TransferFrom, TypeOK
    <3>2. token_approvals' \in [TokenIds -> Callers \cup {None}]
      BY <1>5 DEF TransferFrom, Cleared, TypeOK
    <3> QED
      BY <1>5, <2>5, <2>6, <3>1, <3>2 DEF TransferFrom, TypeOK
  <2>9. TokensConsistent' /\ ApprovalsOfOwner'
    BY <1>5, <2>1, <1>1 DEF TransferFrom, Cleared, TypeOK, TokensConsistent, ApprovalsOfOwner
  <2> QED
    BY <2>7, <2>8, <2>9
<1>6. ASSUME NEW caller \in Callers, NEW id \in TokenIds, NEW limit \in Limits,
             Mint(caller, id, limit)
      PROVE  IInv'
  <2>1. /\ Added(owned_tokens_count, caller) \in [Accounts -> 0 .. MaxCount \cup {None}]
        /\ Matches(Added(owned_tokens_count, caller), [token_owner EXCEPT ![id] = caller])
    BY <1>2, <1>6, AddedMatches DEF Mint, TypeOK
  <2>2. CountsMatch'
    <3>1. Matches(owned_tokens_count, token_owner)'
      BY <1>6, <2>1 DEF Mint, Matches, TokensOf
    <3> QED
      BY <3>1 DEF CountsMatch, Matches, Owned, TokensOf
  <2>3. TypeOK'
    BY <1>6, <2>1 DEF Mint, TypeOK
  <2>4. TokensConsistent' /\ ApprovalsOfOwner'
    BY <1>6, <1>1 DEF Mint, TypeOK, TokensConsistent, ApprovalsOfOwner
  <2> QED
    BY <2>2, <2>3, <2>4
<1>7. ASSUME NEW caller \in Callers, NEW id \in TokenIds, Burn(caller, id)
      PROVE  IInv'
  <2>1. /\ Removed(owned_tokens_count, caller) \in [Accounts -> 0 .. MaxCount \cup {None}]
        /\ Matches(Removed(owned_tokens_count, caller), [token_owner EXCEPT ![id] = None])
    BY <1>2, <1>7, RemovedMatches DEF Burn, TypeOK
  <2>2. CountsMatch'
    <3>1. Matches(owned_tokens_count, token_owner)'
      BY <1>7, <2>1 DEF Burn, Matches, TokensOf
    <3> QED
      BY <3>1 DEF CountsMatch, Matches, Owned, TokensOf
  <2>3. TypeOK'
    BY <1>7, <2>1 DEF Burn, Cleared, TypeOK
  <2>4. TokensConsistent' /\ ApprovalsOfOwner'
    BY <1>7, <1>1 DEF Burn, Cleared, TypeOK, TokensConsistent, ApprovalsOfOwner
  <2> QED
    BY <2>2, <2>3, <2>4
<1>8. CASE UNCHANGED vars
  BY <1>8 DEF vars, TypeOK, CountsMatch, Owned, TokensConsistent, ApprovalsOfOwner
<1> QED
  BY <1>3, <1>4, <1>5, <1>6, <1>7, <1>8 DEF Next

\* The four invariants hold of every reachable state: balances are the
\* numbers of tokens, the mappings agree on which tokens exist, and every
\* approval comes from the present owner.
THEOREM TokenInvariance == Spec => []IInv
<1> QED
  BY InitIInv, NextIInv, PTL DEF Spec

\* The counters stay below their limit, and every mapping keeps its type.
THEOREM TypeCorrectness == Spec => []TypeOK
<1>1. IInv => TypeOK
  BY DEF IInv
<1> QED
  BY <1>1, TokenInvariance, PTL

\* The mappings of owners, approvals and attributes agree on the tokens that
\* exist, after any mint, burn and transfer.
THEOREM Consistency == Spec => []TokensConsistent
<1>1. IInv => TokensConsistent
  BY DEF IInv
<1> QED
  BY <1>1, TokenInvariance, PTL

\* balance_of answers the number of tokens of the account, whatever was
\* minted, burnt and transferred before.
THEOREM BalancesCount == Spec => []CountsMatch
<1>1. IInv => CountsMatch
  BY DEF IInv
<1> QED
  BY TokenInvariance, <1>1, PTL

\* An approval never outlives the ownership it was given under.
THEOREM ApprovalsEnd == Spec => []ApprovalsOfOwner
<1>1. IInv => ApprovalsOfOwner
  BY DEF IInv
<1> QED
  BY TokenInvariance, <1>1, PTL

\* A burn by the owner and a transfer of an owned token always find the count
\* they decrement: CannotFetchValue and the panic of checked_sub are dead.
THEOREM CountsSuffice ==
  Spec => []\A id \in TokenIds :
              token_owner[id] # None => CanRemove(owned_tokens_count, token_owner[id])
<1>1. ASSUME IInv, NEW id \in TokenIds, token_owner[id] # None
      PROVE  CanRemove(owned_tokens_count, token_owner[id])
  BY <1>1, CountsAreMatches, RemovedMatches DEF IInv, TypeOK
<1>2. IInv => \A id \in TokenIds :
                token_owner[id] # None => CanRemove(owned_tokens_count, token_owner[id])
  BY <1>1
<1> QED
  BY TokenInvariance, <1>2, PTL
=============================================================================
