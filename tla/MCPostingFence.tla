-------------------------- MODULE MCPostingFence --------------------------
(***************************************************************************)
(* Small instances of PostingFence.  a1, a2 and e1 (eventually consistent) *)
(* are accounts and n1 one that is created while postings run; s1, s2 and  *)
(* s3 are sets maintained inline.                                          *)
(***************************************************************************)
EXTENDS PostingFence, TLC

CONSTANTS p1, p2, o1, o2, a1, a2, e1, n1, s1, s2, s3

\* In uuid order accounts and sets interleave.
MCRank == [x \in Holders |->
  CASE x = s1 -> 1 [] x = a1 -> 2 [] x = e1 -> 3 [] x = s2 -> 4
    [] x = a2 -> 5 [] x = n1 -> 6 [] x = s3 -> 7]

AddAccounts(es) == [kind |-> "add", accounts |-> es, sets |-> {}]
RemoveAccount(s, a) == [kind |-> "remove", accounts |-> {<<s, a>>}, sets |-> {}]
AddSets(es) == [kind |-> "add", accounts |-> {}, sets |-> es]
RemoveSet(s, t) == [kind |-> "remove", accounts |-> {}, sets |-> {<<s, t>>}]

\* Posters are interchangeable, and so are operations: each picks its input.
Interchangeable == Permutations(Posters) \cup Permutations(Ops)

----------------------------------------------------------------------------
(* Postings against operations on account and set memberships: e1 is       *)
(* eventually consistent, and s3 is above s2.                              *)

MemberAccounts == {a1, e1}
MemberSets == {s1, s2, s3}
MemberEC == {e1}
MemberBatches == {{a1}, {e1}, {a1, e1}}
MemberMembers == {<<s1, a1>>, <<s2, e1>>}
MemberSubsets == {<<s3, s2>>}
MemberPlans == {AddSets({<<s2, s1>>}), AddSets({<<s1, s3>>}),
                AddSets({<<s3, s1>>}), RemoveSet(s3, s2),
                RemoveAccount(s2, e1), AddAccounts({<<s2, a1>>, <<s1, e1>>})}

----------------------------------------------------------------------------
(* Accounts created, with and without an initial set, and a template       *)
(* updated while postings run.                                             *)

CreateAccounts == {a1, a2, n1}
CreateLive == {a1, a2}
CreateSets == {s1, s2}
CreateEC == {}
CreateBatches == {{a1, n1}, {a2, n1}}
CreateMembers == {<<s1, a1>>, <<s1, a2>>}
CreateSubsets == {<<s2, s1>>}
CreatePlans == {AddAccounts({<<s2, n1>>})}

=============================================================================
