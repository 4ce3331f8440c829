------------------------------- MODULE Sources -------------------------------
(***************************************************************************)
(* What is read before elaboration: load_theories (main.rs) resolves the   *)
(* selected bundles of the standard library (stdlib/bundles.rs) to files,  *)
(* adds the input files and merges the theories of all of them             *)
(* (source_merge.rs).                                                      *)
(*                                                                         *)
(* A file has a path and theories; a theory has a syntax and its arrows by *)
(* name.  Recursion of visit is a stack of frames, the bundle and those of *)
(* its dependencies that are still to be visited; the first frame is that  *)
(* of resolve.  Two interfaces that are equal up to their variables        *)
(* (normalized) are equal here.                                            *)
(***************************************************************************)
EXTENDS Hypergraph

CONSTANTS
  Commands,   \* bundles that are selected and files that are given, in order
  Bundles     \* of each name what it extends and its files, in order

VARIABLES
  command,    \* what is compiled
  active,     \* frames of visit
  visited,    \* bundles whose files are in files
  files,      \* what is to be merged
  read,       \* the paths of what was merged, in order
  given,      \* the program, once it is loaded
  raw,        \* its theories so far
  stage,      \* the pass that comes next, or "refused"
  error       \* why it was refused

sourceVars == <<command, active, visited, files, read>>
theoryVars == <<given, raw, stage, error>>

Frame(name, left) == [name |-> name, left |-> left]

SourcesInit ==
  /\ command \in Commands
  /\ active = <<Frame("", command.roots)>>
  /\ visited = {} /\ files = <<>> /\ read = <<>>
  /\ given = <<>> /\ raw = <<>>
  /\ stage = "bundles" /\ error = "none"

Refuse(why) ==
  /\ stage' = "refused"
  /\ error' = why
  /\ UNCHANGED <<given, raw>>

-----------------------------------------------------------------------------
\* visit.

Top == Last(active)
Continued == [active EXCEPT ![Len(active)].left = Tail(@)]
ActiveNames == {active[i].name : i \in 2..Len(active)}

\* The next name that the newest frame visits.
AtName(name) == stage = "bundles" /\ Top.left # <<>> /\ name = Head(Top.left)

VisitAgain ==
  \E name \in visited :
    /\ AtName(name)
    /\ active' = Continued
    /\ UNCHANGED <<command, visited, files, read, theoryVars>>

RefuseBundle ==
  /\ stage = "bundles" /\ Top.left # <<>> /\ Head(Top.left) \notin visited
  /\ \/ Head(Top.left) \in ActiveNames /\ Refuse("Cycle")
     \/ /\ Head(Top.left) \notin ActiveNames \cup DOMAIN Bundles
        /\ Refuse("Unknown")
  /\ UNCHANGED sourceVars

\* Mutant: a bundle counts as visited when its visit begins.
EnterBundleMarks ==
  \E name \in DOMAIN Bundles \ visited :
    /\ AtName(name)
    /\ active' = Append(Continued, Frame(name, Bundles[name].extends))
    /\ visited' = visited \cup {name}
    /\ UNCHANGED <<command, files, read, theoryVars>>

EnterBundle ==
  \E name \in DOMAIN Bundles \ (visited \cup ActiveNames) :
    /\ AtName(name)
    /\ active' = Append(Continued, Frame(name, Bundles[name].extends))
    /\ UNCHANGED <<command, visited, files, read, theoryVars>>

LeaveBundle ==
  /\ stage = "bundles" /\ Top.left = <<>> /\ Len(active) > 1
  /\ active' = Front(active)
  /\ visited' = visited \cup {Top.name}
  /\ files' = files \o Bundles[Top.name].files
  /\ UNCHANGED <<command, read, theoryVars>>

\* The standard library is resolved; the input files come after it.
Resolved ==
  /\ stage = "bundles" /\ Top.left = <<>> /\ Len(active) = 1
  /\ files' = files \o command.inputs
  /\ stage' = "merge"
  /\ UNCHANGED <<command, active, visited, read, given, raw, error>>

-----------------------------------------------------------------------------
\* merge.

AtFile == stage = "merge" /\ files # <<>>
File == Head(files)
Shared == DOMAIN File.theories \cap DOMAIN raw

\* A primitive that is declared again with the same interface is left out.
Repeated(t, o) ==
  /\ o \in DOMAIN raw[t].arrows
  /\ LET old == raw[t].arrows[o]
         new == File.theories[t].arrows[o]
     IN old.def = <<>> /\ new.def = <<>> /\ old.maps = new.maps

\* Anything else that is there twice is refused, as are two syntaxes.
Conflict ==
  \E t \in Shared :
    \/ raw[t].syntax # File.theories[t].syntax
    \/ \E o \in DOMAIN File.theories[t].arrows \cap DOMAIN raw[t].arrows : ~Repeated(t, o)

SkipFile ==
  /\ AtFile /\ File.path \in Range(read)
  /\ files' = Tail(files)
  /\ UNCHANGED <<command, active, visited, read, theoryVars>>

MergeFile ==
  /\ AtFile /\ File.path \notin Range(read) /\ ~Conflict
  /\ raw' = Override([t \in Shared |->
                         [raw[t] EXCEPT !.arrows = Override(@, File.theories[t].arrows)]],
                      Override(raw, File.theories))
  /\ files' = Tail(files)
  /\ read' = Append(read, File.path)
  /\ UNCHANGED <<command, active, visited, given, stage, error>>

RefuseFile ==
  /\ AtFile /\ File.path \notin Range(read) /\ Conflict
  /\ Refuse("Merge")
  /\ UNCHANGED sourceVars

Loaded ==
  /\ stage = "merge" /\ files = <<>>
  /\ given' = raw
  /\ stage' = "literals u64"
  /\ UNCHANGED <<sourceVars, raw, error>>

Load ==
  \/ VisitAgain \/ RefuseBundle \/ EnterBundle \/ LeaveBundle \/ Resolved
  \/ SkipFile \/ MergeFile \/ RefuseFile \/ Loaded

-----------------------------------------------------------------------------
Extensions ==
  UNION {{<<n, d>> : d \in Range(Bundles[n].extends)} : n \in DOMAIN Bundles}
Needed == Reached(Extensions, Range(command.roots))
NeededBundles == Needed \cap DOMAIN Bundles
Circular == {n \in NeededBundles : n \in Reached(Extensions, Range(Bundles[n].extends))}
NeededFiles ==
  (UNION {Range(Bundles[n].files) : n \in NeededBundles}) \cup Range(command.inputs)

Before(f, g) ==
  \A i, j \in DOMAIN read : read[i] = f.path /\ read[j] = g.path => i < j

\* A program is loaded exactly from the files of the bundles that it needs and its
\* own, each bundle after those that it extends, although bundles are shared and
\* entered from several sides; of every file every arrow is there as it was
\* declared; and only a set of bundles that has a cycle or a gap is refused for it
\* ("Resolve roots in selection order, dependencies in declaration order":
\* stdlib/bundles.rs:148).
SourcesAreLoaded ==
  /\ error = "Cycle" => Circular # {}
  /\ error = "Unknown" => ~(Needed \subseteq DOMAIN Bundles)
  /\ stage = "literals u64" =>
       /\ Circular = {} /\ Needed \subseteq DOMAIN Bundles
       /\ Range(read) = {f.path : f \in NeededFiles}
       /\ \A n \in Needed : \A d \in Range(Bundles[n].extends) :
            \A f \in Range(Bundles[d].files), g \in Range(Bundles[n].files) : Before(f, g)
       /\ \A f \in NeededFiles : \A t \in DOMAIN f.theories :
            /\ raw[t].syntax = f.theories[t].syntax
            /\ \A o \in DOMAIN f.theories[t].arrows :
                 /\ raw[t].arrows[o].maps = f.theories[t].arrows[o].maps
                 /\ raw[t].arrows[o].def = f.theories[t].arrows[o].def
=============================================================================
