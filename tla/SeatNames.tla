------------------------------ MODULE SeatNames ------------------------------
(***************************************************************************)
(* The logical identity of a seat: what venues/generation.py calls the     *)
(* seats of a section from the section's own parameters, wherever they are *)
(* drawn.  static/js/seat_geometry.js repeats the same formulas for the    *)
(* live editor.  A letter is its place in the alphabet, from 0.            *)
(***************************************************************************)
EXTENDS Integers, FiniteSets

NumberingSchemes == {"sequential", "odd_desc_left", "even_asc_right", "hundreds", "hundreds_flat"}

(* A section's parameters, as far as they name seats.  place stands for    *)
(* origin, pitch, rotation, offset, arc and pivot, which only move them.   *)
Params == [rows : Nat \ {0}, seats_per_row : Nat \ {0}, alternating : BOOLEAN,
           alt_row_seat_delta : {-1, 0, 1}, numbering_scheme : NumberingSchemes,
           skip_io : BOOLEAN, row_label_start : Nat,
           removed : SUBSET ((Nat \X Nat) \X Nat), place : Nat]

Letters(skip) == IF skip THEN 24 ELSE 26

(* I is letter 8 and O letter 14. *)
LetterAt(skip, k) == IF skip /\ k > 12 THEN k + 2 ELSE IF skip /\ k > 7 THEN k + 1 ELSE k

(* The i-th label of the sequence A, B, ..., Z, AA, BB, ...: a letter and  *)
(* how often it is repeated.                                               *)
RowLabel(skip, i) ==
    <<LetterAt(skip, i % Letters(skip)), i \div Letters(skip) + 1>>

RowCount(prm, r) ==
    LET n == prm.seats_per_row
               + IF prm.alternating /\ r % 2 = 1 THEN prm.alt_row_seat_delta ELSE 0
    IN  IF n < 1 THEN 1 ELSE n

(* The number of the i-th seat from the left, of n, in row r, from 0. *)
SeatNumber(scheme, n, r, i) ==
    CASE scheme = "odd_desc_left"  -> 2 * (n - i) - 1
      [] scheme = "even_asc_right" -> 2 * (i + 1)
      [] scheme = "hundreds"       -> (r + 1) * 100 + i + 1
      [] scheme = "hundreds_flat"  -> 100 + i + 1
      [] OTHER                     -> i + 1

Position(prm) == {pos \in (0 .. prm.rows - 1) \X (0 .. prm.seats_per_row) : pos[2] < RowCount(prm, pos[1])}

(* What a ticket prints for the seat at a position. *)
Identity(prm, pos) ==
    <<RowLabel(prm.skip_io, prm.row_label_start + pos[1]),
      SeatNumber(prm.numbering_scheme, RowCount(prm, pos[1]), pos[1], pos[2])>>

Roster(prm) == {Identity(prm, pos) : pos \in Position(prm)} \ prm.removed
=============================================================================
