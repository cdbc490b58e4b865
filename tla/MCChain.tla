------------------------------- MODULE MCChain -------------------------------
(***************************************************************************)
(* Sizes of four two-valued bytes: 0 .. 15, of which 2 and 3 are accepted   *)
(* (32 bytes to 1 GB in the code).  There is an image of every kind: too    *)
(* small, raw, ELF, too large, negative as a signed number, and one whose   *)
(* length does not fit into four bytes.                                     *)
(***************************************************************************)
EXTENDS ChainLoader

CONSTANTS small, raw, elf, large, negative, wraps

MCFileLen ==
    [f \in Files |-> CASE f = small -> 1 [] f = raw -> 2 [] f = elf -> 3
                       [] f = large -> 4 [] f = negative -> 10 [] f = wraps -> 18]

=============================================================================
