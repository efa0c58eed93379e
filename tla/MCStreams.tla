------------------------------ MODULE MCStreams ------------------------------
(* The reader of coded data, and the streams it may read from, one or the    *)
(* other in a behaviour: what joins them is ByteSource, of which the first   *)
(* assumes no more than pieces of any size, and which the second implements. *)
EXTENDS CodedInput, InputStreams

\* Inputs shorter and longer than INT_MAX, with varints of one byte, of two,
\* overlong ones, and one cut off by the end of the input.
MCInputs == {<<FALSE, TRUE>>, <<FALSE, TRUE, FALSE, TRUE>>,
             <<TRUE, FALSE, TRUE, TRUE, TRUE>>,
             <<FALSE, TRUE, FALSE, FALSE, TRUE, TRUE, TRUE>>}

VARIABLE subject   \* which of the two this behaviour is about

MCInit ==
    /\ Init /\ SourceInit
    /\ subject \in {"reader", "sources"}
    /\ subject = "reader" => seekable /\ limit0 = 0
    /\ subject = "sources" => more = <<FALSE, TRUE>> /\ flat

MCNext ==
    /\ UNCHANGED subject
    /\ \/ subject = "reader" /\ Next /\ UNCHANGED srcVars
       \/ subject = "sources" /\ StreamStep /\ UNCHANGED vars

MCSpec == MCInit /\ [][MCNext]_<<vars, srcVars, subject>>
=============================================================================
