-------------------------- MODULE GraphValidation --------------------------
(***************************************************************************)
(* The checks a request for new memberships passes before its edges are    *)
(* written, as the code computes them from the rows it reads, and what the *)
(* request ought to be told, as a reference that enumerates chains of      *)
(* containment over the whole graph.                                       *)
(*                                                                         *)
(* An edge is <<container, member>>.  Stored edges are a set, a request is *)
(* a sequence of them.  Sets that are on no edge play no part.             *)
(***************************************************************************)
EXTENDS Integers, Sequences, FiniteSets, SequencesExt

CONSTANTS
  Sets,                 \* account sets
  Accounts,             \* accounts
  MAX_MEMBERSHIP_DEPTH  \* edges on a chain of sets

ASSUME GraphAssumption ==
  /\ IsFiniteSet(Sets)
  /\ Sets \cap Accounts = {}
  /\ MAX_MEMBERSHIP_DEPTH \in Nat

----------------------------------------------------------------------------
(* Walks over a set of edges S *)

Nodes(S) == {e[1] : e \in S} \cup {e[2] : e \in S}

Up(D, S) ==
  LET up[n \in Nat] ==
        IF n = 0 THEN D
        ELSE LET near == up[n - 1]
             IN  near \cup {e[1] : e \in {f \in S : f[2] \in near}}
  IN  up[Cardinality(Nodes(S))]

Down(D, S) ==
  LET down[n \in Nat] ==
        IF n = 0 THEN D
        ELSE LET near == down[n - 1]
             IN  near \cup {e[2] : e \in {f \in S : f[1] \in near}}
  IN  down[Cardinality(Nodes(S))]

\* Kahn's algorithm in rounds: the nodes ordered after n of them.
Ordered(S, n) ==
  LET ordered[i \in Nat] ==
        IF i = 0 THEN {}
        ELSE LET before == ordered[i - 1]
             IN  {x \in Nodes(S) : \A e \in S : e[2] = x => e[1] \in before}
  IN  ordered[n]

TopologicalOrder(S) == Ordered(S, Cardinality(Nodes(S)))

\* A node is ordered one round after the deepest of its containers.
MaxDepth(S) ==
  LET rounds == {n \in 1..Cardinality(Nodes(S)) :
                   Ordered(S, n) # Ordered(S, n - 1)}
  IN  IF rounds = {} THEN 0 ELSE Cardinality(rounds) - 1

----------------------------------------------------------------------------
(* What is read *)

\* The components of the cached graph around the request.
EdgesConnectedTo(P, S) ==
  LET near == Down(Nodes(ToSet(P)), S \cup {<<e[2], e[1]>> : e \in S})
  IN  {e \in S : e[1] \in near}

\* Variant (the fault a run must detect): only the memberships in the sets
\* below, not all those of the accounts below.
LocalAccountMemberships(P, S, M) ==
  {m \in M : m[1] \in Down({e[2] : e \in ToSet(P)}, S \cup ToSet(P))}

\* All direct memberships of the accounts below a proposed member.
AffectedAccountMemberships(P, S, M) ==
  LET below    == Down({e[2] : e \in ToSet(P)}, S \cup ToSet(P))
      accounts == {m[2] : m \in {k \in M : k[1] \in below}}
  IN  {m \in M : m[2] \in accounts}

----------------------------------------------------------------------------
(* What is checked *)

\* Edges with their place, so that one a request repeats counts twice.
Occurrences(P, S) == {<<0, e>> : e \in S} \cup {<<i, P[i]>> : i \in DOMAIN P}

\* Some member is reached from an ancestor over two of its edges.
MeetingAncestors(P, S) ==
  LET all == S \cup ToSet(P)
  IN  \E o, q \in Occurrences(P, S) :
        /\ o # q /\ o[2][2] = q[2][2]
        /\ Up({o[2][1]}, all) \cap Up({q[2][1]}, all) # {}

\* Some account is contained twice.
RepeatedContainment(M, S) ==
  \E m, k \in M :
    m # k /\ m[2] = k[2] /\ Up({m[1]}, S) \cap Up({k[1]}, S) # {}

\* The first proposed edge that leads back to its own container.
FirstOnCycle(P, S) ==
  LET back == {i \in DOMAIN P :
                 P[i][1] \in Down({P[i][2]}, S \cup ToSet(P))}
  IN  CHOOSE i \in back : \A j \in back : i <= j

PrefixDepth(P, n, S) == MaxDepth(S \cup ToSet(SubSeq(P, 1, n)))

\* Variant: the search leaves out the middle that it found too deep.
SkippingFirstDepthOverflow(P, S) ==
  LET search[b \in Nat \X Nat] ==
        LET middle == (b[1] + b[2]) \div 2
        IN  IF b[1] >= b[2] THEN b[1]
            ELSE IF PrefixDepth(P, middle, S) > MAX_MEMBERSHIP_DEPTH
                 THEN search[<<b[1], middle - 1>>]
                 ELSE search[<<middle + 1, b[2]>>]
  IN  search[<<1, Len(P)>>]

\* Binary search, between bounds b, for the proposed edge that first exceeds
\* the depth.
FirstDepthOverflow(P, S) ==
  LET search[b \in Nat \X Nat] ==
        LET middle == (b[1] + b[2]) \div 2
        IN  IF b[1] >= b[2] THEN b[1]
            ELSE IF PrefixDepth(P, middle, S) > MAX_MEMBERSHIP_DEPTH
                 THEN search[<<b[1], middle>>]
                 ELSE search[<<middle + 1, b[2]>>]
  IN  search[<<1, Len(P)>>]

Ok == [error |-> "none", edge |-> 0]
MemberAlreadyAdded == [error |-> "MemberAlreadyAdded", edge |-> 0]
MembershipCycleDetected(i) ==
  [error |-> "MembershipCycleDetected", edge |-> i]
MembershipDepthExceeded(i) ==
  [error |-> "MembershipDepthExceeded", edge |-> i]

ValidateSetMemberships(P, S, M) ==
  LET all == S \cup ToSet(P)
  IN  IF TopologicalOrder(all) # Nodes(all)
      THEN MembershipCycleDetected(FirstOnCycle(P, S))
      ELSE IF MeetingAncestors(P, S) \/ RepeatedContainment(M, all)
      THEN MemberAlreadyAdded
      ELSE IF MaxDepth(all) > MAX_MEMBERSHIP_DEPTH
      THEN MembershipDepthExceeded(FirstDepthOverflow(P, S))
      ELSE Ok

\* The verdict on a request for set memberships P, over the existing edges
\* taken from the cache (around the request) or from the table (all).
SetVerdict(P, existing, M) ==
  ValidateSetMemberships(P, existing,
                         AffectedAccountMemberships(P, existing, M))

\* The containers in the proposed and the direct memberships of one account.
Seeds(x, Q, M) ==
  LET seeds == SetToSeq({o \in Occurrences(Q, M) : o[2][2] = x})
  IN  [i \in DOMAIN seeds |-> seeds[i][2][1]]

Containers(s, S) == {e[1] : e \in {f \in S : f[2] = s}}

\* A walk from these to the roots comes to a set twice: w is the queue and
\* the sets visited.
ReachesTwice(x, Q, S, M) ==
  LET walk[w \in Seq(Sets) \X SUBSET Sets] ==
        /\ w[1] # << >>
        /\ \/ Head(w[1]) \in w[2]
           \/ walk[<<Tail(w[1]) \o SetToSeq(Containers(Head(w[1]), S)),
                     w[2] \cup {Head(w[1])}>>]
  IN  walk[<<Seeds(x, Q, M), {}>>]

\* Variant: only what is proposed, not what the accounts are in already.
ProposedAccountVerdict(Q, S, M) ==
  IF \E i \in DOMAIN Q : ReachesTwice(Q[i][2], Q, S, {})
  THEN MemberAlreadyAdded ELSE Ok

\* The verdict on a request for account memberships Q.
AccountVerdict(Q, S, M) ==
  IF \E i \in DOMAIN Q : ReachesTwice(Q[i][2], Q, S, M)
  THEN MemberAlreadyAdded ELSE Ok

----------------------------------------------------------------------------
(* What a request ought to be told *)

\* Chains of containment over O: each edge holds the container of the next.
\* One edge more than there are sets finds every cycle and every account.
Chains(O) ==
  LET chains[n \in Nat] ==
        IF n = 0 THEN {<<o>> : o \in O}
        ELSE LET shorter == chains[n - 1]
             IN  shorter \cup
                 {Append(p[1], p[2]) : p \in
                    {q \in shorter \X O :
                       Len(q[1]) = n /\ Last(q[1])[2][2] = q[2][2][1]}}
  IN  chains[Cardinality(Sets)]

Top(c) == c[1][2][1]
Bottom(c) == Last(c)[2][2]

Cyclic(C) == \E c \in C : Top(c) = Bottom(c)
ContainedTwice(C) ==
  \E c, d \in C : c # d /\ Top(c) = Top(d) /\ Bottom(c) = Bottom(d)
TooDeep(C) ==
  \E c \in C : Bottom(c) \in Sets /\ Len(c) > MAX_MEMBERSHIP_DEPTH

\* The error for request P and existing edges S, accounts' included.
DueError(P, S) ==
  LET C == Chains(Occurrences(P, S))
  IN  IF Cyclic(C) THEN "MembershipCycleDetected"
      ELSE IF ContainedTwice(C) THEN "MemberAlreadyAdded"
      ELSE IF TooDeep(C) THEN "MembershipDepthExceeded" ELSE "none"

\* A valid graph.
Sound(S) == DueError(<< >>, S) = "none"
=============================================================================
