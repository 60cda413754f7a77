------------------------------ MODULE MCGateway ------------------------------
(* Instances of Gateway for TLC. *)
EXTENDS Gateway, TLC

\* Two originals with protected values that look alike once covered.
AllAlike == [o \in Originals |-> CHOOSE x \in Originals : TRUE]

Base == [enabled |-> TRUE, allow_unmask |-> TRUE, masking_enabled |-> TRUE,
         mode |-> "token", allowed_modes |-> Modes]

ForAll(p) == [t \in Tenants |-> p]

\* One deployment that masks with tokens, later one that covers values and
\* forbids the modes that are not its own.
TokensThenMask == {ForAll(Base), ForAll([Base EXCEPT !.mode = "mask", !.allowed_modes = {"mask"}])}

TokensOnly == {ForAll(Base)}

\* The right to restore is granted by a later deployment.
UnmaskGranted == {ForAll(Base), ForAll([Base EXCEPT !.allow_unmask = FALSE])}

\* One tenant masks, another one inspects without masking or restoring, a
\* third configuration switches the second one off.
Mixed ==
  LET first == CHOOSE t \in Tenants : TRUE
      with(p) == [t \in Tenants |-> IF t = first THEN [Base EXCEPT !.mode = "mask"] ELSE p]
      inspect == [Base EXCEPT !.masking_enabled = FALSE, !.allow_unmask = FALSE]
  IN {with(inspect), with([inspect EXCEPT !.enabled = FALSE])}

Symmetry == Permutations(Requests)
=============================================================================
