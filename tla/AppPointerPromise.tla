-------------------------- MODULE AppPointerPromise --------------------------
(***************************************************************************)
(* What get_app_pointer promises, without indices: each registered         *)
(* app_pointer object refers to the application pointer it was made from,  *)
(* until it is unregistered, assigned to or moved from, whatever happens   *)
(* to the other objects.                                                   *)
(***************************************************************************)
CONSTANTS Objects, Pointers, Nothing

VARIABLE refers   \* what lookup_app_ptr returns for each object

PromiseInit == refers = [o \in Objects |-> Nothing]

Get(o, p) == refers' = [refers EXCEPT ![o] = p]

Unregister(o) == refers' = [refers EXCEPT ![o] = Nothing]

Move(from, to) ==
  /\ from # to
  /\ refers' = [refers EXCEPT ![to] = refers[from], ![from] = Nothing]

PromiseNext ==
  \/ \E o \in Objects : Unregister(o) \/ \E p \in Pointers : Get(o, p)
  \/ \E from, to \in Objects : Move(from, to)

PromiseSpec == PromiseInit /\ [][PromiseNext]_refers
=============================================================================
