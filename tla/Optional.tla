------------------------------ MODULE Optional ------------------------------
(***************************************************************************)
(* Shared by the modules of the analysis: the value of an optional field   *)
(* that is absent (Rust's None), and maps put together or changed in a key. *)
(***************************************************************************)
CONSTANT None

With(f, k, v) == [x \in DOMAIN f \cup {k} |-> IF x = k THEN v ELSE f[x]]

Without(f, k) == [x \in DOMAIN f \ {k} |-> f[x]]

Joined(f, g) == [x \in DOMAIN f \cup DOMAIN g |-> IF x \in DOMAIN f THEN f[x] ELSE g[x]]
=============================================================================
