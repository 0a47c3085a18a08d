--------------------------- MODULE PackageChannel ---------------------------
(***************************************************************************)
(* What the package parser of libpomelo promises (package.h): the packages *)
(* of a connection reach the callback whole, in the order they were        *)
(* written, each once.                                                     *)
(***************************************************************************)
EXTENDS Naturals, Sequences

CONSTANT Packages    \* the packages that can be written

VARIABLES
  sent,     \* the packages written on the connection
  called    \* the packages pc_pkg_cb was called with

vars == <<sent, called>>

Init == sent = <<>> /\ called = <<>>

Send(p) == sent' = Append(sent, p) /\ UNCHANGED called

Call ==
  /\ Len(called) < Len(sent)
  /\ called' = Append(called, sent[Len(called) + 1])
  /\ UNCHANGED sent

Next == (\E p \in Packages : Send(p)) \/ Call

Spec == Init /\ [][Next]_vars
=============================================================================
