------------------------------ MODULE MCProtoc ------------------------------
(* A run of protoc: two generators that are built in and a plugin, over a    *)
(* directory that two of them share and an archive; or, in other behaviours, *)
(* how protoc talks to the plugin.  What joins them is the response: Protoc  *)
(* assumes that a plugin's chunks all come, or none does.                    *)
EXTENDS Protoc, PluginPipe

MCDirectives == << [location |-> "dir/", plugin |-> FALSE],
                   [location |-> "dir/", plugin |-> TRUE],
                   [location |-> "a.jar", plugin |-> FALSE] >>

MCFileNames == << "META-INF/MANIFEST.MF", "b.h" >>

\* One with a point on an indented line, one with a line to indent further and
\* a point of its own.
MCTexts == { << [indent |-> 1, point |-> "p"], [indent |-> 0, point |-> "none"] >>,
             << [indent |-> 1, point |-> "none"], [indent |-> 0, point |-> "q"] >> }

VARIABLE subject   \* which of the two this behaviour is about

MCInit ==
    /\ Init /\ PipeInit
    /\ subject \in {"output", "pipe"}
    /\ subject = "output" => ~readsFirst

MCNext ==
    /\ UNCHANGED subject
    /\ \/ subject = "output" /\ Next /\ UNCHANGED pipeVars
       \/ subject = "pipe" /\ PipeNext /\ UNCHANGED vars

MCSpec ==
    /\ MCInit /\ [][MCNext]_<<vars, pipeVars, subject>>
    /\ WF_pipeVars(subject = "pipe" /\ Uninterrupted /\ UNCHANGED <<vars, subject>>)
    /\ WF_pipeVars(subject = "pipe" /\ ChildRuns /\ UNCHANGED <<vars, subject>>)
=============================================================================
