----------------------------- MODULE IndexFile -----------------------------
(***************************************************************************)
(* The files pixeldrant keeps: the graph cache (nvvec-index/src/graph.rs), *)
(* the disk index (disk.rs) and the codes (quant.rs), as the commands of   *)
(* nvvec-bench look for them, create and open them, and as nvvec-server    *)
(* loads its codes and opens its index.                                    *)
(*                                                                         *)
(* Runs of the programs overlap, and any of them may be killed, or meet a  *)
(* full disk, in the middle of a file.  Each file is written in place and  *)
(* in order; graph and index are taken as they are if they exist, the codes*)
(* are written anew each time.  What tells a torn file from a whole one is *)
(* its length alone.                                                       *)
(***************************************************************************)
EXTENDS DiskLayout, Sequences, FiniteSets

CONSTANTS
  Runs,      \* runs of a program that may overlap
  Datasets,
  Count      \* the number of vectors of each dataset

ASSUME FileAssumption ==
  /\ "none" \notin Datasets
  /\ Count \in [Datasets -> Nat \ {0}]

Files == {"graph", "index", "codes"}

\* vamana (with --graph) makes the graph, disk and pipeline the index, and
\* train the codes.  A server makes none; sq8 is one that is routed by codes.
Commands == {"vamana", "disk", "train", "serve", "sq8"}
Writes(c) == CASE c = "vamana" -> "graph" [] c = "disk" -> "index" [] c = "train" -> "codes"
               [] OTHER -> "none"

\* The file a run reads into memory.
Reads(c) == IF c = "sq8" THEN "codes" ELSE "graph"

VARIABLES
  file,     \* each file: its parts, and whether a torn part follows
  pc,       \* where each run is
  command,  \* its command
  data,     \* the dataset it was given, or is the source of the codes it has
  mem,      \* the parts of a graph or of codes it has read so far
  at,       \* parts of its own file it has written
  blocks,   \* the number of blocks of the index, when it opened it
  raced,    \* history: the files that two runs were writing at once,
  undercut  \* and the runs whose file was truncated while they read it

runVars == <<pc, command, data, mem, at, blocks, undercut>>
vars == <<file, runVars, raced>>

-----------------------------------------------------------------------------
\* A part of a file: the dataset it is from, its kind, and for a block of the
\* index its nodes.
Part(src, what, nodes) == [src |-> src, what |-> what, nodes |-> nodes]
Kinds == {"header", "arrays", "block"}
Hole == Part("none", "hole", <<>>)
Absent == [exists |-> FALSE, parts |-> <<>>, ragged |-> FALSE]
Empty  == [Absent EXCEPT !.exists = TRUE]

\* write_disk_index: the header, and a block for each step_by(npb).
IndexImage(src) ==
  LET n == Count[src]
      firsts == {first \in 0 .. n - 1 : first % Npb = 0}
  IN  <<Part(src, "header", <<>>)>> \o
        [i \in 1 .. Cardinality(firsts) |-> Part(src, "block", NodesOf(n, i))]

\* VamanaGraph::save and Sq8Codebook::save write a header, and arrays whose sizes follow from it.
Image(f, src) ==
  IF f = "index" THEN IndexImage(src)
  ELSE <<Part(src, "header", <<>>), Part(src, "arrays", <<>>)>>

Mine(r) == Image(Writes(command[r]), data[r])

-----------------------------------------------------------------------------
Init ==
  /\ file = [f \in Files |-> Absent]
  /\ pc = [r \in Runs |-> "idle"]
  /\ command = [r \in Runs |-> "none"]
  /\ data = [r \in Runs |-> "none"]
  /\ mem = [r \in Runs |-> <<>>]
  /\ at = [r \in Runs |-> 0]
  /\ blocks = [r \in Runs |-> 0]
  /\ raced = {} /\ undercut = {}

Goto(r, where) == pc' = [pc EXCEPT ![r] = where]

\* The run ends, for better or worse.
End(r) ==
  /\ Goto(r, "idle")
  /\ mem' = [mem EXCEPT ![r] = <<>>]
  /\ at' = [at EXCEPT ![r] = 0]
  /\ blocks' = [blocks EXCEPT ![r] = 0]
  /\ command' = [command EXCEPT ![r] = "none"]
  /\ data' = [data EXCEPT ![r] = "none"]
  /\ undercut' = undercut \ {r}

\* The run goes on to open the index, as a server does.
GoOpen(r) ==
  /\ Goto(r, "open")
  /\ command' = [command EXCEPT ![r] = "serve"]

\* A server that is routed by codes knows no dataset but theirs.
Start(r, c, d) ==
  /\ pc[r] = "idle"
  /\ command' = [command EXCEPT ![r] = c]
  /\ data' = [data EXCEPT ![r] = IF c = "sq8" THEN "none" ELSE d]
  /\ Goto(r, CASE c = "train" -> "create" [] c = "serve" -> "open"
                [] c = "sq8" -> "load" [] OTHER -> "look")
  /\ UNCHANGED <<file, mem, at, blocks, raced, undercut>>

\* The graph of vamana is loaded if it exists, else built and saved.
LookForGraph(r) ==
  /\ pc[r] = "look" /\ command[r] = "vamana"
  /\ Goto(r, IF file["graph"].exists THEN "load" ELSE "create")
  /\ UNCHANGED <<file, command, data, mem, at, blocks, raced, undercut>>

\* ensure_index: nothing to do if there is an index; else it takes a graph.
LookForIndex(r) ==
  /\ pc[r] = "look" /\ command[r] = "disk"
  /\ UNCHANGED <<file, raced>>
  /\ IF file["index"].exists \/ file["graph"].exists
       THEN /\ IF file["index"].exists THEN GoOpen(r) ELSE Goto(r, "load") /\ UNCHANGED command
            /\ UNCHANGED <<data, mem, at, blocks, undercut>>
       ELSE End(r)

\* Variant: a short read is taken for the array.
LoadShort(r) ==
  LET next == Len(mem[r]) + 1
      parts == file[Reads(command[r])].parts
  IN  /\ pc[r] = "load"
      /\ next <= 2
      /\ UNCHANGED <<file, raced>>
      /\ IF parts = <<>> \/ (next = 1 /\ parts[1].what # "header")
           THEN End(r)
           ELSE /\ mem' = [mem EXCEPT ![r] = Append(@, IF next <= Len(parts) THEN parts[next] ELSE Hole)]
                /\ UNCHANGED <<pc, command, data, at, blocks, undercut>>

\* Loading reads the header, then the arrays, which must be there in full for
\* as many nodes as the header says.
Load(r) ==
  LET next == Len(mem[r]) + 1
      parts == file[Reads(command[r])].parts
  IN  /\ pc[r] = "load"
      /\ next <= 2
      /\ UNCHANGED <<file, raced>>
      /\ IF \/ next > Len(parts)
            \/ next = 1 /\ parts[1].what # "header"
            \/ next = 2 /\ Count[parts[2].src] < Count[mem[r][1].src]
           THEN End(r)
           ELSE /\ mem' = [mem EXCEPT ![r] = Append(@, parts[next])]
                /\ UNCHANGED <<pc, command, data, at, blocks, undercut>>

\* A graph must have as many nodes as the dataset; vamana needs no file more.
Loaded(r) ==
  LET src == mem[r][1].src IN
  /\ pc[r] = "load"
  /\ Len(mem[r]) = 2
  /\ UNCHANGED <<file, raced>>
  /\ IF command[r] = "vamana" \/ (command[r] = "disk" /\ Count[src] # Count[data[r]])
       THEN End(r)
       ELSE /\ IF command[r] = "disk" THEN Goto(r, "create") /\ UNCHANGED command ELSE GoOpen(r)
            /\ data' = [data EXCEPT ![r] = IF command[r] = "sq8" THEN src ELSE @]
            /\ mem' = [mem EXCEPT ![r] = <<>>]
            /\ UNCHANGED <<at, blocks, undercut>>

-----------------------------------------------------------------------------
\* Other runs that are writing a file, and those in the middle of reading it.
Writers(f, r) == {s \in Runs \ {r} : pc[s] = "write" /\ Writes(command[s]) = f}

Readers(f, r) ==
  {s \in Runs \ {r} :
     \/ pc[s] = "load" /\ Reads(command[s]) = f /\ mem[s] # <<>>
     \/ pc[s] \in {"check", "using"} /\ f = "index"}

\* File::create makes the file, or truncates the one there is.
Create(r) ==
  LET f == Writes(command[r]) IN
  /\ pc[r] = "create"
  /\ file' = [file EXCEPT ![f] = Empty]
  /\ raced' = IF Writers(f, r) # {} THEN raced \cup {f} ELSE raced \ {f}
  /\ undercut' = undercut \cup Readers(f, r)
  /\ Goto(r, "write")
  /\ UNCHANGED <<command, data, mem, at, blocks>>

\* The file with a part written at its place: past the end of a file that was
\* truncated meanwhile, it leaves a hole.
Written(old, place, part) ==
  LET len == IF Len(old.parts) > place THEN Len(old.parts) ELSE place IN
  [exists |-> TRUE,
   parts  |-> [i \in 1 .. len |-> IF i = place THEN part
                                  ELSE IF i <= Len(old.parts) THEN old.parts[i] ELSE Hole],
   ragged |-> old.ragged /\ len = Len(old.parts)]

WritePart(r) ==
  LET f == Writes(command[r]) IN
  /\ pc[r] = "write"
  /\ at[r] < Len(Mine(r))
  /\ file' = [file EXCEPT ![f] = Written(@, at[r] + 1, Mine(r)[at[r] + 1])]
  /\ at' = [at EXCEPT ![r] = @ + 1]
  /\ UNCHANGED <<pc, command, data, mem, blocks, raced, undercut>>

\* The file is written: vamana has what it came for, disk opens its index.
Close(r) ==
  /\ pc[r] = "write"
  /\ at[r] = Len(Mine(r))
  /\ UNCHANGED <<file, raced>>
  /\ IF command[r] = "disk"
       THEN /\ GoOpen(r)
            /\ at' = [at EXCEPT ![r] = 0]
            /\ UNCHANGED <<data, mem, blocks, undercut>>
       ELSE End(r)

\* What was written of a file stays, the next part perhaps torn: of a block.
\* (Of an array it is as good as missing.)
Torn(f, r) ==
  IF pc[r] = "write" /\ at[r] < Len(Mine(r))
    THEN \E torn \in {file[f].ragged, f = "index" /\ at[r] = Len(file[f].parts)} :
           file' = [file EXCEPT ![f].ragged = torn]
    ELSE UNCHANGED file

\* The process is killed, or a write fails for want of space.
Crash(r) ==
  /\ pc[r] # "idle"
  /\ Torn(Writes(command[r]), r)
  /\ End(r)
  /\ UNCHANGED raced

-----------------------------------------------------------------------------
\* Opening a reader of blocks: the length must be a multiple of a block.
Open(r) ==
  /\ pc[r] = "open"
  /\ UNCHANGED <<file, raced>>
  /\ IF ~ file["index"].exists \/ file["index"].ragged
       THEN End(r)
       ELSE /\ blocks' = [blocks EXCEPT ![r] = Len(file["index"].parts)]
            /\ Goto(r, "check")
            /\ UNCHANGED <<command, data, mem, at, undercut>>

\* The header's numbers, with which the length must agree.
HeaderFits(r) ==
  LET parts == file["index"].parts IN
  /\ blocks[r] > 0 /\ parts # <<>>
  /\ parts[1].what = "header"
  /\ blocks[r] = 1 + DataBlocks(Count[parts[1].src])

\* Variant: with_reader does not compare the number of blocks.
CheckHeaderOnly(r) ==
  LET parts == file["index"].parts IN
  /\ pc[r] = "check"
  /\ UNCHANGED <<file, raced>>
  /\ IF blocks[r] > 0 /\ parts # <<>> /\ parts[1].what = "header"
        /\ Count[parts[1].src] = Count[data[r]]
       THEN /\ Goto(r, "using")
            /\ blocks' = [blocks EXCEPT ![r] = 0]
            /\ UNCHANGED <<command, data, mem, at, undercut>>
       ELSE End(r)

\* DiskIndex::with_reader, and the count its callers check after it: it must
\* be that of the dataset, or of the server's codes.
Check(r) ==
  /\ pc[r] = "check"
  /\ UNCHANGED <<file, raced>>
  /\ IF HeaderFits(r) /\ Count[file["index"].parts[1].src] = Count[data[r]]
       THEN /\ Goto(r, "using")
            /\ blocks' = [blocks EXCEPT ![r] = 0]
            /\ UNCHANGED <<command, data, mem, at, undercut>>
       ELSE End(r)

Finish(r) ==
  /\ pc[r] = "using"
  /\ End(r)
  /\ UNCHANGED <<file, raced>>

\* The user deletes a file to have it rebuilt, as the error messages say to,
\* when no program runs.
Delete(f) ==
  /\ \A r \in Runs : pc[r] = "idle"
  /\ file[f].exists
  /\ file' = [file EXCEPT ![f] = Absent]
  /\ raced' = raced \ {f}
  /\ UNCHANGED runVars

-----------------------------------------------------------------------------
Run(r) ==
  \/ LookForGraph(r) \/ LookForIndex(r) \/ Load(r) \/ Loaded(r)
  \/ Create(r) \/ WritePart(r) \/ Close(r) \/ Crash(r)
  \/ Open(r) \/ Check(r) \/ Finish(r)

Next ==
  \/ \E r \in Runs : \/ \E c \in Commands, d \in Datasets : Start(r, c, d)
                     \/ Run(r)
  \/ \E f \in {"graph", "index"} : Delete(f)

Spec == Init /\ [][Next]_vars

-----------------------------------------------------------------------------
AnyPart ==
  {Hole} \cup {part \in [src: Datasets, what: Kinds, nodes: Seq(Nat)] :
                 part.nodes \in Seq(0 .. Count[part.src] - 1)}

\* Every variable has its type, and a block holds nodes of its dataset only.
TypeOK ==
  /\ file \in [Files -> [exists: BOOLEAN, parts: Seq(AnyPart), ragged: BOOLEAN]]
  /\ pc \in [Runs -> {"idle", "look", "load", "create", "write", "open", "check", "using"}]
  /\ command \in [Runs -> Commands \cup {"none"}]
  /\ data \in [Runs -> Datasets \cup {"none"}]
  /\ mem \in [Runs -> Seq(AnyPart)] /\ \A r \in Runs : Len(mem[r]) <= 2
  /\ at \in [Runs -> Nat] /\ \A r \in Runs : pc[r] = "write" => at[r] <= Len(Mine(r))
  /\ blocks \in [Runs -> Nat]
  /\ raced \subseteq Files /\ undercut \subseteq Runs

\* What a run has loaded, a graph or codes, is one save of one run, whole,
\* however many runs were killed, and whoever was still writing when it began.
\* Not so if two wrote it at once, or if it was truncated under the reader.
OneSave(f, parts) == \E src \in Datasets : parts = Image(f, src)

Undisturbed(f, r) == f \notin raced /\ r \notin undercut

LoadedIsWhole ==
  \A r \in Runs : LET f == Reads(command[r]) IN
    Len(mem[r]) = 2 /\ Undisturbed(f, r) => OneSave(f, mem[r])

\* An index in use is one save, whole, for as many nodes as the run counts on
\* (a server routed by codes, as many as it has codes), and stays so under it:
\* every node is found where locate says.
IndexInUse ==
  \A r \in Runs : pc[r] = "using" /\ Undisturbed("index", r) =>
    LET parts == file["index"].parts IN
    /\ OneSave("index", parts)
    /\ \A n \in 0 .. Count[data[r]] - 1 :
         LET place == Locate(n) IN parts[place.block + 1].nodes[place.slot + 1] = n

\* A run refuses a file that is whole only if it was not yet so when it was
\* opened, was written or read by two at once, or is for another number of
\* vectors.
Whole(f) == OneSave(f, file[f].parts) /\ ~ file[f].ragged

Excuse(r) ==
  CASE pc[r] = "look" -> ~ file["graph"].exists /\ ~ file["index"].exists
    [] pc[r] = "load" ->
         LET f == Reads(command[r]) IN
         \/ ~ Whole(f) \/ ~ Undisturbed(f, r)
         \/ f = "graph" /\ mem[r] # <<>> /\ Count[mem[r][1].src] # Count[data[r]]
    [] pc[r] = "open" -> ~ Whole("index")
    [] OTHER -> \/ ~ Whole("index")
                \/ blocks[r] # Len(file["index"].parts)
                \/ Count[file["index"].parts[1].src] # Count[data[r]]

Refuses(r) ==
  /\ \/ LookForIndex(r) \/ Load(r) \/ Open(r) \/ Check(r)
     \/ Loaded(r) /\ command[r] # "vamana"
  /\ pc'[r] = "idle"

WholeIsAccepted == [][\A r \in Runs : Refuses(r) => Excuse(r)]_vars

-----------------------------------------------------------------------------
\* What makes the safety properties inductive.  What each command's run does,
\* and has at hand, where it is.
InOrder ==
  \A r \in Runs :
    /\ pc[r] = "look" => command[r] \in {"vamana", "disk"}
    /\ pc[r] = "load" => command[r] \in {"vamana", "disk", "sq8"}
    /\ pc[r] \in {"create", "write"} => command[r] \in {"vamana", "disk", "train"}
    /\ pc[r] \in {"open", "check", "using"} => command[r] = "serve"
    /\ pc[r] # "idle" /\ command[r] # "sq8" => data[r] \in Datasets
    /\ mem[r] # <<>> => pc[r] = "load" /\ mem[r][1].what = "header"
    /\ pc[r] # "write" => at[r] = 0

Begins(p, q) == Len(p) <= Len(q) /\ \A i \in 1 .. Len(p) : p[i] = q[i]

Writing(f, r) == pc[r] = "write" /\ Writes(command[r]) = f

\* A file that no two runs were writing at once is the beginning of one save,
\* torn only where it ends short; one that is being written has one writer,
\* and ends where that is.
Started(f) ==
  /\ ~ file[f].exists => file[f].parts = <<>>
  /\ f \notin raced =>
       /\ file[f].exists => \E src \in Datasets :
            /\ Begins(file[f].parts, Image(f, src))
            /\ file[f].ragged => Len(file[f].parts) < Len(Image(f, src))
       /\ \A r \in Runs : Writing(f, r) =>
            /\ file[f].exists /\ ~ file[f].ragged
            /\ Len(file[f].parts) = at[r] /\ Begins(file[f].parts, Mine(r))
            /\ \A s \in Runs : Writing(f, s) => s = r

\* What a run has seen of a file that was not truncated under it is there still.
Seen(r) ==
  LET f == Reads(command[r])
      parts == file["index"].parts
  IN  /\ pc[r] = "load" /\ Undisturbed(f, r) => Begins(mem[r], file[f].parts)
      /\ pc[r] = "check" /\ Undisturbed("index", r) => blocks[r] <= Len(parts)
      /\ pc[r] = "using" /\ Undisturbed("index", r) =>
           \E src \in Datasets : parts = Image("index", src) /\ Count[src] = Count[data[r]]

IndInv ==
  /\ TypeOK
  /\ InOrder
  /\ \A f \in Files : Started(f)
  /\ \A r \in Runs : Seen(r)

=============================================================================
