--------------------------- MODULE ReusePlanSidecar ---------------------------
(***************************************************************************)
(* The sidecar file of a ReusePlan: writeReusePlanSidecar and              *)
(* loadReusePlanSidecar of src/bench/include/ecg_reuse_plan_sidecar.h, and *)
(* the generator of src/bench/src_sim/reuse_plan_sidecar.cc that writes a  *)
(* file and loads it back.                                                 *)
(*                                                                         *)
(* A file is its header, its offsets and its records, each written whole   *)
(* or torn; what a part holds is the plan it was made for.  Hashes do not  *)
(* collide.  The temporary is named by the process id, which processes of  *)
(* two hosts that share the file system may have in common.  Nothing is    *)
(* synced: a crash of the host loses parts of any file and may undo        *)
(* renames.                                                                *)
(***************************************************************************)
EXTENDS Integers, FiniteSets, Sequences

CONSTANTS
    Generators, Readers,
    Pids,           \* the process ids a generator may have
    Graphs, Configs,
    SizeOf,         \* vertices and edges of a graph, all the header tells of it but the hash
    PlanOf,         \* of each process: <<graph, config>>
    NoFile,
    MaxCrashes      \* bounds the crashes of a behaviour

Processes == Generators \cup Readers
SidecarPlans == Graphs \X Configs
\* Enough for every open file and the one a crash leaves.
Inodes == 1 .. Cardinality(Generators) + 1

ASSUME SidecarAssumption ==
    /\ PlanOf \in [Processes -> SidecarPlans] /\ Generators \cap Readers = {}
    /\ IsFiniteSet(Generators) /\ NoFile \notin Inodes /\ MaxCrashes \in Nat

Torn == <<"torn">>
Header(plan) == <<"header", plan>>
Offsets(plan) == <<"offsets", plan[1]>>
Records(plan) == <<"records", plan>>
Whole(plan) == <<Header(plan), Offsets(plan), Records(plan)>>

VARIABLES
    pc,         \* of each process: what it does next
    open,       \* of each process: the file it has open
    buffer,     \* of each process: the parts it has loaded
    content,    \* of each inode: its parts
    pid,        \* of each generator
    temporary,  \* the inode of the temporary of each process id, or NoFile
    path,       \* the inode the sidecar's name leads to, or NoFile
    published,  \* auxiliary: the inodes path has led to
    accepted,   \* auxiliary: what each process has loaded, or <<>>
    crashes     \* auxiliary: the crashes so far

sidecarVars == <<pc, open, buffer, content, pid, temporary, path, published, accepted, crashes>>

SidecarInit ==
    /\ pc = [p \in Processes |-> IF p \in Generators THEN "create" ELSE "open"]
    /\ open = [p \in Processes |-> NoFile]
    /\ buffer = [p \in Processes |-> <<>>]
    /\ content = [i \in Inodes |-> <<>>]
    /\ pid \in [Generators -> Pids]
    /\ temporary = [n \in Pids |-> NoFile]
    /\ path = NoFile
    /\ published = {}
    /\ accepted = [p \in Processes |-> <<>>]
    /\ crashes = 0

Goto(p, from, to) == pc[p] = from /\ pc' = [pc EXCEPT ![p] = to]
KeepFiles == UNCHANGED <<content, temporary, path, published>>
KeepLoads == UNCHANGED <<buffer, accepted>>

Used == {temporary[n] : n \in Pids} \cup {path} \cup published \cup {open[p] : p \in Processes}

\* The temporary is created, or truncated if its name is taken.
Create(g) ==
    LET unused == CHOOSE i \in Inodes : i \notin Used
        i == IF temporary[pid[g]] # NoFile THEN temporary[pid[g]] ELSE unused
    IN  /\ Goto(g, "create", "header")
        /\ open' = [open EXCEPT ![g] = i]
        /\ temporary' = [temporary EXCEPT ![pid[g]] = i]
        /\ content' = [content EXCEPT ![i] = <<>>]
        /\ KeepLoads /\ UNCHANGED <<path, published, crashes>>

\* A part at its place of a file; what was skipped before it reads as torn.
Written(parts, k, part) ==
    [j \in 1 .. (IF k > Len(parts) THEN k ELSE Len(parts)) |->
        IF j = k THEN part ELSE IF j <= Len(parts) THEN parts[j] ELSE Torn]

Write_Unchecked(g, k, part, from, to) ==
    /\ Goto(g, from, to)
    /\ content' = [content EXCEPT ![open[g]] = Written(@, k, part)] \/ UNCHANGED content
    /\ KeepLoads /\ UNCHANGED <<open, temporary, path, published, crashes>>
\* One part is written, or the stream fails; flush reports it at the end.
Write(g, k, part, from, to) ==
    /\ \/ Goto(g, from, to) /\ content' = [content EXCEPT ![open[g]] = Written(@, k, part)]
       \/ Goto(g, from, "failed") /\ content' = [content EXCEPT ![open[g]] = Written(@, k, Torn)]
       \/ Goto(g, from, "failed") /\ UNCHANGED content
    /\ KeepLoads /\ UNCHANGED <<open, temporary, path, published, crashes>>

\* A generator that could not write removes whatever has its temporary's name.
Remove(g) ==
    /\ Goto(g, "failed", "done")
    /\ open' = [open EXCEPT ![g] = NoFile]
    /\ temporary' = [temporary EXCEPT ![pid[g]] = NoFile]
    /\ KeepLoads /\ UNCHANGED <<content, path, published, crashes>>

\* The file is closed, then what has the temporary's name becomes the sidecar.
Close(g) ==
    /\ Goto(g, "close", "rename")
    /\ open' = [open EXCEPT ![g] = NoFile]
    /\ KeepFiles /\ KeepLoads /\ UNCHANGED crashes

Rename(g) ==
    LET i == temporary[pid[g]]
    IN  /\ Goto(g, "rename", IF i = NoFile THEN "failed" ELSE "open")
        /\ path' = IF i = NoFile THEN path ELSE i
        /\ published' = IF i = NoFile THEN published ELSE published \cup {i}
        /\ temporary' = [temporary EXCEPT ![pid[g]] = NoFile]
        /\ KeepLoads /\ UNCHANGED <<open, content, crashes>>

\* loadReusePlanSidecar, of a reader or of a generator that has published.
Open(p) ==
    /\ Goto(p, "open", IF path = NoFile THEN "done" ELSE "load header")
    /\ open' = [open EXCEPT ![p] = path]
    /\ KeepFiles /\ KeepLoads /\ UNCHANGED crashes

\* The header's configuration and sizes must be the reader's own.
HeaderFits(p, parts) ==
    \E plan \in SidecarPlans :
        /\ Len(parts) >= 1 /\ parts[1] = Header(plan)
        /\ plan[2] = PlanOf[p][2] /\ SizeOf[plan[1]] = SizeOf[PlanOf[p][1]]

\* A part is loaded and the load goes on, or it gives up and closes the file.
Loaded(p, from, to, fits, parts) ==
    /\ Goto(p, from, IF fits THEN to ELSE "done")
    /\ buffer' = [buffer EXCEPT ![p] = IF fits THEN parts ELSE <<>>]
    /\ open' = [open EXCEPT ![p] = IF fits THEN @ ELSE NoFile]
    /\ KeepFiles /\ UNCHANGED <<accepted, crashes>>

LoadHeader(p) ==
    LET parts == content[open[p]]
    IN  Loaded(p, "load header", "load offsets", HeaderFits(p, parts), <<parts[1]>>)

\* The length of the file, then its offsets.
LoadOffsets(p) ==
    LET parts == content[open[p]]
    IN  Loaded(p, "load offsets", "load records", Len(parts) = 3, Append(buffer[p], parts[2]))

Valid_NoPayloadHash(p, parts) ==
    LET graph == PlanOf[p][1]
    IN  /\ parts[2] = Offsets(PlanOf[p])
        /\ \E config \in Configs : parts[3] = Records(<<graph, config>>)
        /\ \E config \in Configs : parts[1] = Header(<<graph, config>>)
\* The edges are in the order of the reader's graph, the header has its hash, and
\* the hash of the payload is the one the header was written with.
Valid(p, parts) ==
    LET graph == PlanOf[p][1]
    IN  /\ parts[2] = Offsets(PlanOf[p])
        /\ \E config \in Configs : parts[3] = Records(<<graph, config>>)
        /\ \E config \in Configs : parts[1] = Header(<<graph, config>>)
        /\ \E plan \in SidecarPlans : parts = Whole(plan)

\* The records, where a file cut since its length was taken fails the read.
LoadRecords(p) ==
    LET parts == content[open[p]]
        loaded == Append(buffer[p], parts[3])
    IN  /\ Goto(p, "load records", "done")
        /\ accepted' = [accepted EXCEPT ![p] =
              IF Len(parts) = 3 /\ Valid(p, loaded) THEN loaded ELSE <<>>]
        /\ open' = [open EXCEPT ![p] = NoFile]
        /\ buffer' = [buffer EXCEPT ![p] = <<>>]
        /\ KeepFiles /\ UNCHANGED crashes

\* What a file may be after a crash: any part of it torn, and cut at any length.
Remains(parts) ==
    UNION {{[j \in 1 .. n |-> IF j \in lost THEN Torn ELSE parts[j]] : lost \in SUBSET (1 .. n)} :
           n \in 0 .. Len(parts)}

\* The host goes down with all processes, which are then started again.  What no
\* name leads to is gone, and a temporary is truncated before it is used again.
Crash ==
    /\ crashes < MaxCrashes
    /\ crashes' = crashes + 1
    /\ path' \in published \cup {NoFile}
    /\ published' = {path'} \ {NoFile}
    /\ \E parts \in IF path' = NoFile THEN {<<>>} ELSE Remains(content[path']) :
          content' = [i \in Inodes |-> IF i = path' THEN parts ELSE <<>>]
    /\ temporary' = [n \in Pids |-> NoFile]
    /\ pc' = [p \in Processes |-> IF p \in Generators THEN "create" ELSE "open"]
    /\ open' = [p \in Processes |-> NoFile]
    /\ buffer' = [p \in Processes |-> <<>>]
    /\ accepted' = [p \in Processes |-> <<>>]

Step(p) ==
    \/ /\ p \in Generators
       /\ \/ Create(p)
          \/ Write(p, 1, Header(PlanOf[p]), "header", "offsets")
          \/ Write(p, 2, Offsets(PlanOf[p]), "offsets", "records")
          \/ Write(p, 3, Records(PlanOf[p]), "records", "close")
          \/ Close(p) \/ Rename(p) \/ Remove(p)
    \/ Open(p) \/ LoadHeader(p) \/ LoadOffsets(p) \/ LoadRecords(p)

SidecarNext == (Crash \/ \E p \in Processes : Step(p)) /\ UNCHANGED pid

SidecarSpec == SidecarInit /\ [][SidecarNext]_sidecarVars
-------------------------------------------------------------------------------
\* A sidecar that is accepted is, part for part, the one built for the graph and the
\* configuration of whoever loads it: not a torn one, nor one that two generators
\* wrote through each other, nor one that changed while it was read.
AcceptedIsOwn ==
    \A p \in Processes : accepted[p] # <<>> => accepted[p] = Whole(PlanOf[p])

Alone(g) == \A f \in Generators \ {g} : pid[f] # pid[g]

\* Until the host crashes, and where no two generators share a temporary's name, the
\* sidecar's name leads to a complete file or none at every moment: a failed write
\* never takes the place of an older sidecar.
PublishedIsComplete ==
    crashes = 0 /\ path # NoFile /\ (\A g \in Generators : Alone(g)) =>
        \E g \in Generators : content[path] = Whole(PlanOf[g])
===============================================================================
