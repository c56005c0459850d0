------------------------------ MODULE MCTransfer ------------------------------
(* Small limits, and requests on both sides of each.                       *)
EXTENDS Transfer

Edit == [ side |-> 3, pixels |-> 6, decoded |-> 24,
          nativeSide |-> 0, nativePixels |-> 0, nativeBytes |-> 0 ]
Gateway == [ side |-> 4, pixels |-> 12, decoded |-> 48,
             nativeSide |-> 12, nativePixels |-> 96, nativeBytes |-> 1152 ]
Worker == [Gateway EXCEPT !.side = 5]

Files ==
  [ route: Processing \cup {"edit"}, declared: {"absent", "malformed", "exact"},
    body: 1 .. 9, file: 0 .. 6, width: {2}, height: {2}, valid: {TRUE} ]
Pictures ==
  [ route: Processing \cup {"edit"}, declared: {"absent"}, body: {3}, file: {2},
    width: 0 .. 5, height: 0 .. 5, valid: BOOLEAN ]
Bodies ==
  [ route: {"generation"}, declared: {"absent", "malformed", "exact"},
    body: 1 .. 7, file: {0}, width: {0}, height: {0}, valid: {FALSE} ]

\* A multipart body is longer than the file in it.
Requests == {c \in Files : c.file < c.body} \cup Pictures \cup Bodies
=============================================================================
