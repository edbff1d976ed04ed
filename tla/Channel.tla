------------------------------- MODULE Channel ------------------------------
(***************************************************************************)
(* Channel<T> of booksim2/src/channel.hpp, the delay line under every flit *)
(* and credit channel.  The operations are functions from the record of    *)
(* the object's fields to the record; _input and _output hold at most one  *)
(* item and are sequences of length 0 or 1.                                *)
(*                                                                         *)
(* The time an item is due is kept relative to GetSimTime(): Elapse is the *)
(* end of a cycle.                                                         *)
(***************************************************************************)
EXTENDS Integers, Sequences

(* A list of entries stamped with a due time, one cycle later. *)
Later(list) ==
  [k \in DOMAIN list |->
     IF list[k].due < 0 THEN list[k] ELSE [list[k] EXCEPT !.due = @ - 1]]

NewChannel(delay) ==
  [delay |-> delay, input |-> <<>>, wait_queue |-> <<>>, output |-> <<>>]

Send(ch, item) == [ch EXCEPT !.input = <<item>>]

Receive(ch) == ch.output

ChannelReadInputs(ch) ==
  [ch EXCEPT !.wait_queue =
               @ \o [k \in DOMAIN ch.input |->
                       [due |-> ch.delay - 1, item |-> ch.input[k]]],
             !.input = <<>>]

ChannelWriteOutputs(ch) ==
  IF ch.wait_queue # <<>> /\ Head(ch.wait_queue).due = 0
  THEN [ch EXCEPT !.output = <<Head(ch.wait_queue).item>>, !.wait_queue = Tail(@)]
  ELSE [ch EXCEPT !.output = <<>>]

Elapse(ch) == [ch EXCEPT !.wait_queue = Later(@)]

(* What is under way behind _output, first the item that arrives next. *)
Line(ch) == [k \in DOMAIN ch.wait_queue |-> ch.wait_queue[k].item] \o ch.input

=============================================================================
