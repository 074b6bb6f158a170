----------------------------- MODULE RecipePlan -----------------------------
(***************************************************************************)
(* What a recipe promises to the programs that use the control device: one *)
(* client at a time owns it, starts from an empty plan, and the plan is    *)
(* the sequence of the requests that client made and did not take back,    *)
(* each on whole erase blocks inside the device and no two sharing a byte. *)
(***************************************************************************)
EXTENDS PartitionRange, SequencesExt

CONSTANTS
  Client,     \* the processes that open the control device
  Nobody,     \* no client has it open
  Requests    \* the requests a client makes

VARIABLES
  owner,      \* the client that has the device open, or Nobody
  plan        \* the sequence of requests in force

planVars == <<owner, plan>>

Disjoint(r, s) ==
  Bytes(r.offset, r.length) \intersect Bytes(s.offset, s.length) = {}

Init == owner = Nobody /\ plan = <<>>

TakeOver(c) ==
  /\ owner = Nobody
  /\ owner' = c
  /\ plan' = <<>>

Leave(c) ==
  /\ owner = c
  /\ owner' = Nobody
  /\ UNCHANGED plan

Add(c, r) ==
  /\ owner = c
  /\ RangeFits(r.offset, r.length)
  /\ \A i \in DOMAIN plan : Disjoint(plan[i], r)
  /\ plan' = Append(plan, r)
  /\ UNCHANGED owner

TakeBack(c, i) ==
  /\ owner = c
  /\ plan' = RemoveAt(plan, i)
  /\ UNCHANGED owner

Clear(c) ==
  /\ owner = c
  /\ plan' = <<>>
  /\ UNCHANGED owner

Next ==
  \E c \in Client :
    \/ TakeOver(c)
    \/ Leave(c)
    \/ \E r \in Requests : Add(c, r)
    \/ \E i \in DOMAIN plan : TakeBack(c, i)
    \/ Clear(c)

Spec == Init /\ [][Next]_planVars
=============================================================================
