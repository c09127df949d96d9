----------------------------- MODULE MCAsyncQueue -----------------------------
(* Instances of AsyncQueue for TLC. *)
EXTENDS AsyncQueue

(* Two kinds of tasks. *)
TwoKinds == [i \in 0 .. 1 |-> IF i = 0 THEN 10 ELSE 20]

task(t, i, d, p) == [timeslice |-> t, id |-> i, debounce |-> d, part |-> p]

(* Two debounced tasks of one kind for one timeslice, and a third for a    *)
(* later one, which run() merges with them once both are past.             *)
DebouncedPosts == {task(1, 0, 1, 0), task(1, 0, 2, 0), task(2, 0, 0, 0)}

(* As the decongestion service posts them. *)
OldestPossiblePosts ==
  {task(1, 0, -1, 0), task(1, 0, -1, 1), task(2, 0, -1, 0)}
===============================================================================
