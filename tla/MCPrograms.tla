----------------------------- MODULE MCPrograms -----------------------------
EXTENDS Programs

(* Workers are numbered; the first one's identity gives 0, the others' do not. *)
MCNumber == [w \in Worker |-> w - 1]
=============================================================================
