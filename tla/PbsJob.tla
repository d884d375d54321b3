-------------------------------- MODULE PbsJob --------------------------------
(***************************************************************************)
(* Job.jobTemplate of src/drm4g/managers/pbs.py: the PBS directives of the *)
(* wrapper script do_SUBMIT writes for a job, from the parameters parsed   *)
(* from GridWay's RSL and the resource's features. The directives are a    *)
(* sequence of records (the option and what it requests); the texts of     *)
(* -N, -v, -o, -e and the executable line are left out, no property reads  *)
(* them.                                                                   *)
(*                                                                         *)
(* setup.py supports Python 2.6 and 2.7 and 3.3 to 3.7, and the node count *)
(* is computed with "/", which is floor division on int in Python 2 and    *)
(* true division in Python 3: the interpreter is a choice of the build.    *)
(* The module checks the node request over every parameter set in small    *)
(* bounds; the state is the parameter set and the interpreter, chosen      *)
(* once.                                                                   *)
(***************************************************************************)
EXTENDS Integers, Sequences

CONSTANTS
    Counts,    \* values of parameters['count'] (processes requested)
    Ppns,      \* values of parameters['ppn'] (processes per node)
    NodeNums,  \* values of parameters['nodes']
    Pythons    \* interpreter major versions the build may use

ASSUME Counts \subseteq Nat /\ Ppns \subseteq Nat \ {0} /\ Pythons \subseteq {2, 3}

\* Optional keys of the parameters dictionary ('queue' is always there).
Optional == {"project", "maxWallTime", "maxCpuTime", "maxMemory", "ppn", "nodes"}

Params == [has : SUBSET Optional, queue : {"default", "other"},
           count : Counts, ppn : Ppns, nodes : NodeNums]

\* int(parameters['count']) / int(parameters['ppn']) on line 122, and the
\* '%d' formatting on line 125. Python 2: floor division of ints. Python 3:
\* a float, compared with 0 as it is (0 only when count is 0) and then
\* truncated by '%d'.
NodeCount(count, ppn, py) ==
    IF py = 2 THEN (IF count \div ppn = 0 THEN 1 ELSE count \div ppn)
    ELSE (IF count = 0 THEN 1 ELSE count \div ppn)

\* Lines 119-127: the -l nodes directive. nodes and ppn given: both as
\* written; ppn alone: the computed node count; neither: $count nodes (one
\* process each).
NodesRequest(p, py) ==
    IF {"ppn", "nodes"} \subseteq p.has THEN [nodes |-> p.nodes, ppn |-> p.ppn]
    ELSE IF "ppn" \in p.has THEN [nodes |-> NodeCount(p.count, p.ppn, py), ppn |-> p.ppn]
    ELSE [nodes |-> p.count, ppn |-> 1]

\* Lines 102-131: the directives in the order they are written; a
\* conditional directive is there when its key is, -q only for a queue other
\* than "default". Template.safe_substitute fills in the values.
Directive(o) == [opt |-> o]
JobTemplate(p, py) ==
    LET cond(k, o) == IF k \in p.has THEN <<Directive(o)>> ELSE <<>> IN
    <<Directive("-N"), Directive("-v"), Directive("-o"), Directive("-e")>>
    \o cond("project", "-P")
    \o (IF p.queue # "default" THEN <<Directive("-q")>> ELSE <<>>)
    \o cond("maxWallTime", "-l walltime") \o cond("maxCpuTime", "-l cput")
    \o cond("maxMemory", "-l mem")
    \o <<[opt |-> "-l nodes", req |-> NodesRequest(p, py)]>>

VARIABLES params, py

vars == <<params, py>>

Init == params \in Params /\ py \in Pythons

\* jobTemplate is a function of its input: nothing changes afterwards.
Next == UNCHANGED vars

Spec == Init /\ [][Next]_vars

----------------------------------------------------------------------------
(* Properties.                                                             *)

\* The node request of a job that gives ppn but not nodes provides at
\* least one node and room for every process it asked for (nodes * ppn >=
\* count): the node count computed by jobTemplate for PBS must round up,
\* and must not be 0.
NodesCoverCount ==
    LET t == JobTemplate(params, py)
        r == t[Len(t)].req
    IN  ("ppn" \in params.has /\ "nodes" \notin params.has)
            => r.nodes >= 1 /\ r.nodes * r.ppn >= params.count

=============================================================================
