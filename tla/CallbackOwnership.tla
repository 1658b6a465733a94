-------------------------- MODULE CallbackOwnership --------------------------
(***************************************************************************)
(* What register_callback and the sandbox_callback objects promise: at any *)
(* time a function has at most one owning object; the sandbox can call it  *)
(* from the moment registration opens it until its owner closes it, and a  *)
(* function that is closed is soon owned by nobody and can be registered   *)
(* again.  Tables, locks and slots do not appear.                          *)
(***************************************************************************)
CONSTANTS Functions,  \* application functions offered to the sandbox
          Handles,    \* sandbox_callback objects
          NoHandle    \* nobody

VARIABLES owner,      \* the object that owns each function
          open        \* the functions the sandbox can call

ownershipVars == <<owner, open>>

OwnershipInit ==
  /\ owner = [f \in Functions |-> NoHandle]
  /\ open = {}

OwnsNothing(h) == \A f \in Functions : owner[f] # h

Open(f) ==
  /\ owner[f] = NoHandle
  /\ f \notin open
  /\ open' = open \union {f}
  /\ UNCHANGED owner

Own(f, h) ==
  /\ owner[f] = NoHandle
  /\ f \in open
  /\ OwnsNothing(h)
  /\ owner' = [owner EXCEPT ![f] = h]
  /\ UNCHANGED open

Transfer(f, h) ==
  /\ owner[f] # NoHandle
  /\ OwnsNothing(h)
  /\ owner' = [owner EXCEPT ![f] = h]
  /\ UNCHANGED open

Close(f) ==
  /\ owner[f] # NoHandle
  /\ f \in open
  /\ open' = open \ {f}
  /\ UNCHANGED owner

Disown(f) ==
  /\ owner[f] # NoHandle
  /\ f \notin open
  /\ owner' = [owner EXCEPT ![f] = NoHandle]
  /\ UNCHANGED open

OwnershipNext ==
  \E f \in Functions :
    \/ Open(f) \/ Close(f) \/ Disown(f)
    \/ \E h \in Handles : Own(f, h) \/ Transfer(f, h)

(* Once opened a function gets its owner, once closed it loses it. *)
OwnershipFairness ==
  \A f \in Functions :
    /\ WF_ownershipVars(\E h \in Handles : Own(f, h))
    /\ WF_ownershipVars(Disown(f))

OwnershipSpec ==
  OwnershipInit /\ [][OwnershipNext]_ownershipVars /\ OwnershipFairness
=============================================================================
