----------------------------- MODULE AFPVolume -----------------------------
(***************************************************************************)
(* The AppleShare volume (src/afp): the numbers the server hands out for   *)
(* what is in the folder of the host, the calls that make, delete, rename  *)
(* and move it, the forks the sessions have open, and the comments and     *)
(* applications of the desktop database.  The host has hands of its own:   *)
(* it puts things in the folder and takes them out behind the server.      *)
(*                                                                         *)
(* A call is one action: the server handles one at a time and answers      *)
(* before it takes the next.  A call that is refused still numbers what    *)
(* its path leads to.                                                      *)
(***************************************************************************)
EXTENDS AFPFolder

CONSTANTS
  Sessions,     \* the sessions of the server, by their number
  Calls,        \* BOUND: the calls the machine makes
  Asked,        \* BOUND: the folder numbers and paths it makes them with
  AskedTo,      \* BOUND: those it moves things to
  NewNames,     \* BOUND: the names it gives
  AccessModes,  \* BOUND: what it opens forks for
  Comments,     \* the comments of Get Info
  Appl,         \* what the Finder keeps of applications, by their creator
  Initial,      \* what may be in the folder as the server starts
  LastID,       \* BOUND: the last number handed out
  QuantumSize,  \* the most bytes of a fork in a reply
  LastRef,      \* the last reference number of a fork before they start again
  HostPuts,     \* BOUND: what the host puts in the folder
  MostObjects,  \* BOUND: how much is in the folder
  MostTaken,    \* BOUND: how many places the host takes something from
  HostTakesOpen,  \* whether the host may take what a session has open
  HostMakesAlike, \* whether it may put in a name like another but for case
  RefusesBeside   \* where it may refuse to rename an AppleDouble file

ASSUME VolumeAssumption ==
  /\ AskedTo \subseteq Asked /\ Asked \subseteq Nat \X Seq(MacName \cup {Up}) /\ NewNames \subseteq Names
  /\ Appl \subseteq Finders /\ {LastRef, QuantumSize} \subseteq Nat \ {0} /\ LastID \in Nat
  /\ None \notin MacName
  /\ HostPuts \subseteq [dir : BOOLEAN, locked : BOOLEAN, meta : Meta]
  /\ \A folder \in Initial : IsTree(folder)
  /\ MostObjects \in Nat /\ MostTaken \in Nat
  /\ {HostTakesOpen, HostMakesAlike} \subseteq BOOLEAN

VARIABLES
  ids,           \* the numbers: by number, by path and the next one
  forks,         \* the forks open, by reference number
  resources,     \* the resource fork open of each file, by path
  copies,        \* the resource forks held in memory
  nextFork,      \* the last reference number handed out
  comments, applications, scanned, \* the desktop database
  sessions,      \* what each session has done
  truth,         \* history: what the machine made of each thing in the folder
  strange        \* history: where the host took something behind the server

folderVars == <<host, side, truth, strange>>
forkVars == <<forks, resources, copies, nextFork>>
deskVars == <<comments, applications, scanned>>
vars == <<folderVars, ids, forkVars, deskVars, sessions>>

parentOfRootID == 1
rootID == 2
firstFreeID == 17

\* What something is when nobody has said anything of it.
Untold(meta, own) ==
  [id |-> 0, meta |-> meta, comment |-> None, creators |-> {}, own |-> own]

NoDesktop == comments = <<>> /\ applications = <<>> /\ scanned = FALSE
NobodyIn == sessions = [s \in Sessions |-> "closed"]

Init ==
  /\ host \in Initial
  /\ side = <<>>
  /\ ids = [byID |-> With(<<>>, rootID, Root), byPath |-> With(<<>>, Root, rootID), next |-> firstFreeID]
  /\ forks = <<>> /\ resources = <<>> /\ copies = <<>> /\ nextFork = 0
  /\ NoDesktop /\ NobodyIn
  /\ truth = [p \in DOMAIN host |-> Untold(NoMeta, TRUE)]
  /\ strange = {}

(***************************************************************************)
(* Numbers                                                                 *)
(***************************************************************************)
Number(numbers, rel) ==
  IF rel \in DOMAIN numbers.byPath THEN numbers
  ELSE [byID |-> With(numbers.byID, numbers.next, rel),
        byPath |-> With(numbers.byPath, rel, numbers.next),
        next |-> numbers.next + 1]

\* Mutant of MovedNumbers: only by path.
MovedNumbersByPath(numbers, from, to) ==
  [numbers EXCEPT !.byPath = Relocated(@, from, to)]

\* What moved and everything in it followed to where it went.
MovedNumbers(numbers, from, to) ==
  LET moved == {p \in DOMAIN numbers.byPath : IsPrefix(from, p)} IN
  [numbers EXCEPT
     !.byPath = Relocated(@, from, to),
     !.byID = [i \in DOMAIN @ |->
                 IF \E p \in moved : numbers.byPath[p] = i
                 THEN Gone(CHOOSE p \in moved : numbers.byPath[p] = i, from, to)
                 ELSE @[i]]]

RemovedNumbers(numbers, rel) ==
  LET removed == {p \in DOMAIN numbers.byPath : IsPrefix(rel, p)} IN
  [numbers EXCEPT
     !.byPath = Without(@, rel),
     !.byID = [i \in DOMAIN @ \ {numbers.byPath[p] : p \in removed} |-> @[i]]]

NumberAll(numbers, rels) == FoldLeft(Number, numbers, rels)

\* Where the path of a call leads, from a folder given by its number.
Resolve(asked) ==
  Follow(IF asked[1] = parentOfRootID THEN Above
         ELSE IF asked[1] \in DOMAIN ids.byID THEN In(ids.byID[asked[1]]) ELSE Lost, asked[2])

Resolved(numbers, at) == IF Exists(at) THEN Number(numbers, Rel(at)) ELSE numbers

Stamped(history, numbers, named) ==
  [p \in DOMAIN history |->
     IF p \in named /\ history[p].id = 0
     THEN [history[p] EXCEPT !.id = numbers.byPath[p]] ELSE history[p]]

\* The numbers after a call that named these, within the bound.
Numbering(numbers) == numbers.next <= LastID + 1 /\ ids' = numbers

Someone == \E s \in Sessions : sessions[s] = "in"
May(call) == call \in Calls /\ Someone

\* A call that changes nothing but what has a number.
OnlyNumbers(numbers, named) ==
  /\ Numbering(numbers)
  /\ truth' = Stamped(truth, numbers, named)
  /\ UNCHANGED <<host, side, strange, forkVars, deskVars, sessions>>

Named(at) == IF Exists(at) THEN {Rel(at)} ELSE {}

Refused(at) == OnlyNumbers(Resolved(ids, at), Named(at))

(***************************************************************************)
(* Looking                                                                 *)
(***************************************************************************)
\* What the parameters of a file or a folder number: with the number of the
\* folder it is in, if they ask for that.
WithParent(numbers, rel, asks) ==
  IF asks /\ rel # Root THEN Number(numbers, ParentOf(rel)) ELSE numbers

Parents(rel, asks) == IF asks /\ rel # Root THEN {ParentOf(rel)} ELSE {}

GetFileDirParms(asked, asks) ==
  /\ May("look")
  /\ \E at \in {Resolve(asked)} :
     IF Exists(at)
     THEN OnlyNumbers(WithParent(Resolved(ids, at), Rel(at), asks),
                      {Rel(at)} \cup Parents(Rel(at), asks))
     ELSE Refused(at)

\* A folder has its number from the path that led to it, and keeps it.
OpenDir(asked) == May("look") /\ Refused(Resolve(asked))

Part(list, start, count) ==
  SubSeq(list, start, IF start + count - 1 < Len(list) THEN start + count - 1 ELSE Len(list))

\* A folder listed from the index start on, as many as fit, its folders (TRUE)
\* and its files (FALSE) or only these.
Enumerate(asked, kinds, start, count) ==
  /\ May("list")
  /\ \E at \in {Resolve(asked)} :
     LET shown == {n \in Shown(Rel(at)) : host[Append(Rel(at), n)].dir \in kinds}
         listed == IF Exists(at) /\ IsDir(Rel(at)) THEN Part(Listed(shown), start, count) ELSE <<>>
         rels == [i \in 1..Len(listed) |-> Append(Rel(at), listed[i])]
     IN  OnlyNumbers(NumberAll(Resolved(ids, at), rels),
                     Named(at) \cup {rels[i] : i \in DOMAIN rels})

(***************************************************************************)
(* Open forks, and what changes the catalog                                *)
(***************************************************************************)
\* Whether a file, or anything in a folder, has a fork open.
Busy(rel) == \E r \in DOMAIN forks : IsPrefix(rel, forks[r].rel)

\* The parameters set: what the Finder keeps, if it is given.
SetParms(asked, finder, outcome) ==
  /\ May("set")
  /\ \E at \in {Resolve(asked)} :
     LET rel == Rel(at)
         numbers == Resolved(ids, at)
         known == Stamped(truth, numbers, Named(at))
         result == Allowed(rel, outcome)
     IN  IF ~Exists(at) THEN Refused(at)
         ELSE
           /\ Numbering(numbers)
           /\ IF finder = None THEN side' = side /\ truth' = known
              ELSE LET meta == [Metadata(rel) EXCEPT !.finder = finder] IN
                /\ side' = MetaWritten(side, rel, meta, result)
                /\ truth' = CASE result = "written" -> [known EXCEPT ![rel].meta.finder = finder]
                              [] result = "cut" -> [known EXCEPT ![rel].own = FALSE]
                              [] OTHER -> known
           /\ UNCHANGED <<host, strange, forkVars, deskVars, sessions>>

\* Something new at rel, which has the AppleDouble file that lies there.
Made(rel, dir) ==
  /\ Cardinality(DOMAIN host) < MostObjects + 1
  /\ host' = With(host, rel, [dir |-> dir, locked |-> FALSE, data |-> <<>>])

\* The server does not ask whether a new name is hidden; the host refuses one
\* that is there.
CreateFile(asked, hard, outcome) ==
  /\ May("create")
  /\ \E at \in {Resolve(asked)} :
     LET rel == Rel(at)
         numbers == Resolved(ids, at)
         known == Stamped(truth, numbers, Named(at))
         new == NewRel(at.folder, at.name)
     IN  IF Exists(at)
         THEN IF at.name = None \/ ~hard \/ host[rel].dir \/ Busy(rel) \/ host[rel].locked
              THEN Refused(at)
              ELSE /\ Numbering(numbers)
                   /\ host' = [host EXCEPT ![rel].data = <<>>]
                   /\ side' = MetaWritten(side, rel, NoMeta, Allowed(rel, outcome))
                   /\ truth' = [known EXCEPT ![rel].meta = NoMeta,
                                             ![rel].own = @ /\ outcome = "written"]
                   /\ UNCHANGED <<strange, forkVars, deskVars, sessions>>
         ELSE IF ~at.ok \/ at.name.mangled \/ at.name.of \notin NewNames
                 \/ Len(at.folder) = Depth \/ new \in DOMAIN host
              THEN Refused(at)
              ELSE /\ Made(new, FALSE)
                   /\ truth' = With(known, new, Untold(Metadata(new), new \notin strange))
                   /\ Numbering(numbers)
                   /\ UNCHANGED <<side, strange, forkVars, deskVars, sessions>>

CreateDir(asked) ==
  /\ May("create")
  /\ \E at \in {Resolve(asked)} :
     LET new == NewRel(at.folder, at.name)
     IN  IF Exists(at) \/ ~at.ok \/ at.name.mangled \/ at.name.of \notin NewNames
            \/ Len(at.folder) = Depth \/ new \in DOMAIN host
         THEN Refused(at)
         ELSE LET numbers == Number(ids, new)
                  told == With(truth, new, Untold(Metadata(new), new \notin strange))
              IN  /\ Made(new, TRUE)
                  /\ Numbering(numbers)
                  /\ truth' = Stamped(told, numbers, {new})
                  /\ UNCHANGED <<side, strange, forkVars, deskVars, sessions>>

Inside(folder) == {p \in DOMAIN host : IsPrefix(folder, p) /\ p # folder}

\* The AppleDouble files of what is in a folder, which go with it.
Clutter(folder) == {p \in DOMAIN side : Len(p) = Len(folder) + 1 /\ IsPrefix(folder, p)}

\* The entries of a list that are wanted, in the order they are in.
Selected(list, wanted) ==
  FoldLeft(LAMBDA kept, a : IF a \in wanted THEN Append(kept, a) ELSE kept, <<>>, list)

Forgotten(list, rel) == Selected(list, {a \in ToSet(list) : a.rel # rel})

\* A file nobody has open, or a folder with nothing in it but what the host
\* hides, is deleted; what is hidden and not the host's clutter keeps it.
Delete(asked) ==
  /\ May("delete")
  /\ \E at \in {Resolve(asked)} :
     LET rel == Rel(at)
     IN  IF ~Exists(at) \/ rel = Root \/ (host[rel].dir /\ Shown(rel) # {})
            \/ (~host[rel].dir /\ Busy(rel))
         THEN Refused(at)
         ELSE IF Inside(rel) # {}
         THEN /\ Numbering(Resolved(ids, at))
              /\ truth' = Stamped(truth, Resolved(ids, at), Named(at))
              /\ side' = [p \in DOMAIN side \ Clutter(rel) |-> side[p]]
              /\ UNCHANGED <<host, strange, forkVars, deskVars, sessions>>
         ELSE /\ host' = Without(host, rel)
              /\ side' = [p \in DOMAIN side \ ({rel} \cup Clutter(rel)) |-> side[p]]
              /\ Numbering(RemovedNumbers(Resolved(ids, at), rel))
              /\ comments' = [p \in DOMAIN comments \ {rel} |-> comments[p]]
              /\ applications' = Forgotten(applications, rel)
              /\ truth' = Without(truth, rel)
              /\ strange' = strange \ {rel}
              /\ UNCHANGED <<forkVars, scanned, sessions>>

\* Mutant of MovedForks: the forks of what is in a folder that moves stay.
MovedForksAlone(from, to) ==
  [r \in DOMAIN forks |->
     LET f == forks[r] IN
     [f EXCEPT !.rel = IF @ = from THEN to ELSE @,
               !.file = IF @ \in {None, to} THEN None
                        ELSE IF IsPrefix(from, @) THEN Gone(@, from, to) ELSE @]]

\* The forks of what moved follow it by their paths, as the server has them;
\* the files they are open on are the host's to move.
MovedForks(from, to) ==
  [r \in DOMAIN forks |->
     LET f == forks[r] IN
     [f EXCEPT !.rel = IF IsPrefix(from, @) THEN Gone(@, from, to) ELSE @,
               !.file = IF @ \in {None, to} THEN None
                        ELSE IF IsPrefix(from, @) THEN Gone(@, from, to) ELSE @]]

MovedCopies(from, to) ==
  [c \in DOMAIN copies |->
     IF \E p \in DOMAIN resources : resources[p] = c /\ IsPrefix(from, p)
     THEN [copies[c] EXCEPT !.rel = Gone(@, from, to)] ELSE copies[c]]

\* Mutant of MovedDesktop: the comments stay behind.
MovedDesktopButComments(from, to) ==
  /\ comments' = comments
  /\ applications' = [i \in DOMAIN applications |->
       [applications[i] EXCEPT !.rel = IF IsPrefix(from, @) THEN Gone(@, from, to) ELSE @]]

MovedDesktop(from, to) ==
  /\ comments' = Relocated(comments, from, to)
  /\ applications' = [i \in DOMAIN applications |->
       [applications[i] EXCEPT !.rel = IF IsPrefix(from, @) THEN Gone(@, from, to) ELSE @]]

\* What lands where the host took something is not answered for.
MovedTruth(history, from, to) ==
  LET moved == Relocated(history, from, to) IN
  [p \in DOMAIN moved |->
     IF IsPrefix(to, p) THEN [moved[p] EXCEPT !.own = @ /\ p \notin strange] ELSE moved[p]]

\* The host renames onto a file it hides, and refuses to onto a folder.
HostRenames(from, to) ==
  to \notin DOMAIN host \/ ~(host[to].dir \/ host[from].dir)

\* BOUND: nothing the server or the history knows of goes deeper.
WithinDepth(from, to) ==
  \A p \in DOMAIN host \cup DOMAIN side \cup DOMAIN ids.byPath \cup DOMAIN comments \cup strange :
    IsPrefix(from, p) => Len(Gone(p, from, to)) <= Depth

\* Something is put in a folder under a name, which has to be free there.
Move(numbers, history, rel, folder, name) ==
  LET there == Lookup(folder, name)
      to == NewRel(folder, name)
      free == there = None \/ (folder = ParentOf(rel) /\ there = Last(rel))
  IN  IF ~IsDir(folder) \/ ~free \/ to = rel \/ ~HostRenames(rel, to)
      THEN /\ Numbering(numbers)
           /\ truth' = history
           /\ UNCHANGED <<host, side, strange, forkVars, deskVars, sessions>>
      ELSE /\ WithinDepth(rel, to)
           /\ host' = Relocated(Without(host, to), rel, to)
           /\ side' \in {Renamed(rel, to)}
                        \cup IF rel \in RefusesBeside THEN {RenamedAlone(rel, to)}
                             ELSE {}
           /\ Numbering(MovedNumbers(numbers, rel, to))
           /\ forks' = MovedForks(rel, to)
           /\ resources' = Relocated(resources, rel, to)
           /\ copies' = MovedCopies(rel, to)
           /\ MovedDesktop(rel, to)
           /\ truth' = MovedTruth(Without(history, to), rel, to)
           /\ strange' = {IF IsPrefix(rel, p) THEN Gone(p, rel, to) ELSE p : p \in strange}
                         \cup {p \in strange : IsPrefix(to, p)}
           /\ UNCHANGED <<nextFork, scanned, sessions>>

Rename(asked, name) ==
  /\ May("rename") /\ name \in NewNames
  /\ \E at \in {Resolve(asked)} :
     LET rel == Rel(at)
         numbers == Resolved(ids, at)
     IN  IF ~Exists(at) \/ rel = Root THEN Refused(at)
         ELSE Move(numbers, Stamped(truth, numbers, {rel}), rel, ParentOf(rel), Plain(name))

\* To another folder, under its own name if none is given; a folder does not
\* go into itself.  BOUND: a mangled name is not given to the host.
MoveAndRename(asked, askedTo, name) ==
  /\ May("move") /\ name \in NewNames \cup {None}
  /\ \E from \in {Resolve(asked)}, to \in {Resolve(askedTo)} :
     LET rel == Rel(from)
         folder == Rel(to)
         seen == Resolved(ids, from)
         numbers == IF Exists(from) THEN Resolved(seen, to) ELSE seen
         named == IF Exists(from) THEN Named(from) \cup Named(to) ELSE {}
         own == NameOf(ParentOf(rel), Last(rel))
     IN  IF ~Exists(from) \/ ~Exists(to) \/ rel = Root \/ ~IsDir(folder)
            \/ (host[rel].dir /\ IsPrefix(rel, folder))
         THEN OnlyNumbers(numbers, named)
         ELSE /\ name = None => ~own.mangled
              /\ Move(numbers, Stamped(truth, numbers, named), rel, folder,
                      IF name = None THEN own ELSE Plain(name))

(***************************************************************************)
(* Forks                                                                   *)
(***************************************************************************)
Access == SUBSET {"read", "write", "denyRead", "denyWrite"}

\* One asks for what the other denies.
Denied(asks, denies) ==
  \/ "read" \in asks /\ "denyRead" \in denies
  \/ "write" \in asks /\ "denyWrite" \in denies

Conflicts(rel, resource, access) ==
  \E r \in DOMAIN forks :
    /\ forks[r].rel = rel /\ forks[r].resource = resource
    /\ Denied(access, forks[r].access) \/ Denied(forks[r].access, access)

\* The next reference number that no open fork has.
NewForkRef ==
  LET after(n) == ((nextFork + n - 1) % LastRef) + 1
      n == CHOOSE k \in 1..LastRef :
             /\ after(k) \notin DOMAIN forks
             /\ \A j \in 1..k - 1 : after(j) \in DOMAIN forks
  IN  after(n)

FreeCopy == CHOOSE c \in 1..LastRef : c \notin DOMAIN copies

\* The copy of a resource fork already in memory, if there is one.
Shared(rel) == IF rel \in DOMAIN resources THEN resources[rel] ELSE None

OpenFork(s, asked, resource, access) ==
  /\ "fork" \in Calls /\ sessions[s] = "in"
  /\ DOMAIN forks # 1..LastRef /\ (resource => DOMAIN copies # 1..LastRef)
  /\ \E at \in {Resolve(asked)} :
     LET rel == Rel(at)
         numbers == Resolved(ids, at)
         copy == IF Shared(rel) # None THEN Shared(rel) ELSE FreeCopy
         fresh == [rel |-> rel, data |-> Metadata(rel).resource, dirty |-> FALSE, users |-> 0]
         open == [session |-> s, rel |-> rel, resource |-> resource, access |-> access,
                  copy |-> IF resource THEN copy ELSE 0, file |-> rel]
     IN  IF ~Exists(at) \/ host[rel].dir \/ ("write" \in access /\ host[rel].locked)
            \/ Conflicts(rel, resource, access)
         THEN Refused(at)
         ELSE /\ Numbering(numbers)
              /\ truth' = Stamped(truth, numbers, {rel})
              /\ nextFork' = NewForkRef
              /\ forks' = With(forks, NewForkRef, open)
              /\ IF resource
                 THEN /\ resources' = With(resources, rel, copy)
                      /\ LET had == IF copy \in DOMAIN copies THEN copies[copy] ELSE fresh
                         IN  copies' = With(copies, copy, [had EXCEPT !.users = @ + 1])
                 ELSE UNCHANGED <<resources, copies>>
              /\ UNCHANGED <<host, side, strange, deskVars, sessions>>

Has(s, ref) ==
  "fork" \in Calls /\ sessions[s] = "in" /\ ref \in DOMAIN forks /\ forks[ref].session = s

\* A fork once data is written to it at an offset, with zeros up to there.
Written(data, offset, bytes) ==
  [i \in 1..(IF offset + Len(bytes) > Len(data) THEN offset + Len(bytes) ELSE Len(data)) |->
     IF i > offset /\ i <= offset + Len(bytes) THEN bytes[i - offset]
     ELSE IF i <= Len(data) THEN data[i] ELSE 0]

\* A fork cut or made longer.
Resized(data, length) == [i \in 1..length |-> IF i <= Len(data) THEN data[i] ELSE 0]

\* A file of the host taken away under an open fork is gone for all others.
DataOf(f) ==
  IF f.resource THEN copies[f.copy].data ELSE IF f.file = None THEN <<>> ELSE host[f.file].data

OpenForks(rel) == {forks[r].resource : r \in {q \in DOMAIN forks : forks[q].rel = rel}}

ResourceLength(rel) ==
  IF Shared(rel) # None THEN Len(copies[Shared(rel)].data) ELSE Len(Metadata(rel).resource)

\* What the parameters of a file tell of its forks, the resource fork at TRUE;
\* of a fork that is open they are those of the file at its path.
FileParms(rel) ==
  [open |-> OpenForks(rel), length |-> [resource \in BOOLEAN |-> IF resource THEN ResourceLength(rel) ELSE Len(host[rel].data)]]
GetForkParms(ref) == FileParms(forks[ref].rel)

\* The bytes a read gives and how it ends: as many as were asked for and fit in
\* a reply, or up to the first that is newline, unless that is None.
Read(ref, offset, count, newline) ==
  LET data == DataOf(forks[ref])
      most == offset + (IF count < QuantumSize THEN count ELSE QuantumSize)
      bytes == SubSeq(data, offset + 1, IF most < Len(data) THEN most ELSE Len(data))
      ends == {i \in 1..Len(bytes) : bytes[i] = newline}
  IN  IF "read" \notin forks[ref].access THEN [bytes |-> <<>>, result |-> "accessDenied"]
      ELSE IF ends # {} THEN [bytes |-> SubSeq(bytes, 1, Min(ends)), result |-> "noErr"]
      ELSE [bytes |-> bytes,
            result |-> IF Len(bytes) < count /\ offset + Len(bytes) >= Len(data)
                       THEN "eofErr" ELSE "noErr"]

\* A fork changed: the data fork where it is, the resource fork in memory.
Changed(ref, data) ==
  LET f == forks[ref] IN
  /\ Len(data) <= Longest
  /\ IF f.resource
     THEN /\ copies' = [copies EXCEPT ![f.copy].data = data, ![f.copy].dirty = TRUE]
          /\ truth' = IF f.file = None THEN truth
                      ELSE [truth EXCEPT ![f.file].meta.resource = data]
          /\ host' = host
     ELSE /\ host' = IF f.file = None THEN host ELSE [host EXCEPT ![f.file].data = data]
          /\ UNCHANGED <<copies, truth>>
  /\ UNCHANGED <<side, strange, ids, forks, resources, nextFork, deskVars, sessions>>

\* An offset counts from the start of the fork or from its end.
Write(s, ref, offset, fromEnd, bytes) ==
  /\ Has(s, ref)
  /\ "write" \in forks[ref].access
  /\ LET start == IF fromEnd THEN offset + Len(DataOf(forks[ref])) ELSE offset
     IN  start >= 0 /\ Changed(ref, Written(DataOf(forks[ref]), start, bytes))

SetForkParms(s, ref, length) ==
  /\ Has(s, ref)
  /\ "write" \in forks[ref].access
  /\ Changed(ref, Resized(DataOf(forks[ref]), length))

\* The part of the state that flushing and closing forks go through.
Open == [forks |-> forks, resources |-> resources, copies |-> copies,
         side |-> side, truth |-> truth]

\* A copy written to goes back in the AppleDouble file of where its file is;
\* one that did not is still to be written.
Flushed(open, c, outcome) ==
  LET copy == open.copies[c]
      result == Allowed(copy.rel, outcome)
      meta == [MetaIn(open.side, copy.rel) EXCEPT !.resource = copy.data]
  IN  IF ~copy.dirty THEN open
      ELSE [open EXCEPT
              !.side = MetaWritten(@, copy.rel, meta, result),
              !.copies[c].dirty = result # "written",
              !.truth = [p \in DOMAIN @ |->
                           IF p = copy.rel /\ result # "written"
                           THEN [@[p] EXCEPT !.own = FALSE] ELSE @[p]]]

\* The last one to close a resource fork takes its copy, written back or not.
Closed(open, ref, outcome) ==
  LET f == open.forks[ref]
      left == [open EXCEPT !.forks = [r \in DOMAIN @ \ {ref} |-> @[r]]]
      flushed == Flushed(left, f.copy, outcome)
      copy == flushed.copies[f.copy]
  IN  IF ~f.resource THEN left
      ELSE IF copy.users > 1 THEN [flushed EXCEPT !.copies[f.copy].users = @ - 1]
      ELSE [flushed EXCEPT !.resources = [p \in DOMAIN @ \ {copy.rel} |-> @[p]],
                           !.copies = [c \in DOMAIN @ \ {f.copy} |-> @[c]]]

AllClosed(open, refs, outcome) ==
  FoldLeft(LAMBDA before, ref : Closed(before, ref, outcome), open, refs)

Becomes(open) ==
  /\ forks' = open.forks /\ resources' = open.resources /\ copies' = open.copies
  /\ side' = open.side /\ truth' = open.truth
  /\ UNCHANGED <<host, strange, ids, nextFork, deskVars>>

FlushFork(s, ref, outcome) ==
  /\ Has(s, ref)
  /\ IF forks[ref].resource THEN Becomes(Flushed(Open, forks[ref].copy, outcome))
     ELSE Becomes(Open)
  /\ UNCHANGED sessions

CloseFork(s, ref, outcome) ==
  /\ Has(s, ref)
  /\ Becomes(Closed(Open, ref, outcome))
  /\ UNCHANGED sessions

(***************************************************************************)
(* Sessions                                                                *)
(***************************************************************************)
OpenSession(s) ==
  /\ sessions[s] = "closed"
  /\ sessions' = [sessions EXCEPT ![s] = "open"]
  /\ UNCHANGED <<folderVars, ids, forkVars, deskVars>>

Login(s) ==
  /\ sessions[s] # "closed"
  /\ sessions' = [sessions EXCEPT ![s] = "in"]
  /\ UNCHANGED <<folderVars, ids, forkVars, deskVars>>

\* The forks of who logs out stay open until the session closes.
Logout(s) ==
  /\ "leave" \in Calls /\ sessions[s] = "in"
  /\ sessions' = [sessions EXCEPT ![s] = "open"]
  /\ UNCHANGED <<folderVars, ids, forkVars, deskVars>>

\* Mutant of CloseSession: what it left open is left open.
CloseSessionOnly(s, outcome) ==
  /\ "leave" \in Calls /\ sessions[s] # "closed"
  /\ Becomes(Open)
  /\ sessions' = [sessions EXCEPT ![s] = "closed"]

\* The forks a session left open are closed with it, in any order.
CloseSession(s, outcome) ==
  /\ "leave" \in Calls /\ sessions[s] # "closed"
  /\ LET left == SetToSeq({r \in DOMAIN forks : forks[r].session = s})
     IN  Becomes(AllClosed(Open, left, outcome))
  /\ sessions' = [sessions EXCEPT ![s] = "closed"]

(***************************************************************************)
(* The desktop database                                                    *)
(***************************************************************************)
Put(list, creator, rel) ==
  IF \E i \in DOMAIN list : list[i] = [creator |-> creator, rel |-> rel] THEN list
  ELSE Append(list, [creator |-> creator, rel |-> rel])

\* A path that leads nowhere is refused; the calls of the database are made
\* on what is there.
OnDesktop(at, history) ==
  /\ Numbering(Resolved(ids, at))
  /\ truth' = Stamped(history, Resolved(ids, at), Named(at))
  /\ UNCHANGED <<host, side, strange, forkVars, scanned, sessions>>

AddAPPL(asked, creator) ==
  /\ May("appl")
  /\ \E at \in {Resolve(asked)} : LET rel == Rel(at) IN
     IF ~Exists(at) \/ host[rel].dir THEN Refused(at)
     ELSE /\ applications' = Put(applications, creator, rel)
          /\ comments' = comments
          /\ OnDesktop(at, [truth EXCEPT ![rel].creators = @ \cup {creator}])

RemoveAPPL(asked, creator) ==
  /\ May("appl")
  /\ \E at \in {Resolve(asked)} : LET rel == Rel(at) IN
     IF ~Exists(at) THEN Refused(at)
     ELSE /\ applications' = Selected(applications,
                               ToSet(applications) \ {[creator |-> creator, rel |-> rel]})
          /\ comments' = comments
          /\ OnDesktop(at, [truth EXCEPT ![rel].creators = @ \ {creator}])

\* A comment of None is one removed.
AddComment(asked, comment) ==
  /\ May("comment")
  /\ \E at \in {Resolve(asked)} : LET rel == Rel(at) IN
     IF ~Exists(at) THEN Refused(at)
     ELSE /\ comments' = IF comment = None
                         THEN [p \in DOMAIN comments \ {rel} |-> comments[p]]
                         ELSE With(comments, rel, comment)
          /\ applications' = applications
          /\ OnDesktop(at, [truth EXCEPT ![rel].comment = comment])

\* The comment of what is at a path, and the applications of a creator, by
\* their index: those that are no longer there are passed over.
GetComment(rel) == IF rel \in DOMAIN comments THEN comments[rel] ELSE None

\* A file the volume lists.
IsFile(rel) ==
  rel \in DOMAIN host \ {Root} /\ ~host[rel].dir /\ Last(rel) \in Shown(ParentOf(rel))

GetAPPL(creator, index) ==
  LET here == Selected(applications,
                {a \in ToSet(applications) : a.creator = creator /\ IsFile(a.rel)})
  IN  IF index <= Len(here) THEN here[index].rel ELSE None

\* What going through a folder comes across: it ends at the first name with a
\* dot, the AppleDouble file of something in it or of the folder shared.
Scanned(folder) ==
  LET dots == \/ \E n \in Hidden : Append(folder, n) \in DOMAIN host
              \/ Clutter(folder) # {}
              \/ (folder = Root /\ Root \in DOMAIN side)
  IN  {Append(folder, n) : n \in {m \in Shown(folder) : dots => Rank[m] < DotRank}}

\* The folders gone through, from the root.
Walked ==
  {p \in DOMAIN host : IsDir(p) /\ \A k \in 1..Len(p) :
     SubSeq(p, 1, k) \in Scanned(SubSeq(p, 1, k - 1))}

\* Opened the first time, the volume is gone through for its applications.
OpenDT ==
  /\ May("appl") /\ ~scanned
  /\ LET files == {p \in UNION {Scanned(folder) : folder \in Walked} : ~host[p].dir}
         found == SetToSeq({p \in files : Metadata(p).finder \in Appl})
     IN  /\ applications' = FoldLeft(LAMBDA list, p : Put(list, Metadata(p).finder, p),
                                     applications, found)
         /\ truth' = [p \in DOMAIN truth |->
                        IF p \in ToSet(found)
                        THEN [truth[p] EXCEPT !.creators = @ \cup {Metadata(p).finder}]
                        ELSE truth[p]]
  /\ scanned' = TRUE
  /\ UNCHANGED <<host, side, strange, ids, forkVars, comments, sessions>>

(***************************************************************************)
(* The host                                                                *)
(***************************************************************************)
\* Someone puts a file or a folder in, with an AppleDouble file or without.
HostMakes(rel, dir, locked, meta) ==
  /\ "host" \in Calls
  /\ rel \in Paths \ DOMAIN host /\ IsDir(ParentOf(rel))
  /\ Cardinality(DOMAIN host) < MostObjects + 1
  /\ HostMakesAlike \/ Lookup(ParentOf(rel), Plain(Last(rel))) = None
  /\ host' = With(host, rel, [dir |-> dir, locked |-> locked, data |-> <<>>])
  /\ side' = IF meta = NoMeta THEN side ELSE With(side, rel, meta)
  /\ truth' = With(truth, rel, Untold(MetaIn(side', rel), rel \notin strange))
  /\ UNCHANGED <<strange, ids, forkVars, deskVars, sessions>>

\* Someone takes a file or an empty folder out, with its AppleDouble file and
\* those left in it.
HostTakes(rel) ==
  /\ "host" \in Calls
  /\ rel \in DOMAIN host \ {Root} /\ Inside(rel) = {}
  /\ Cardinality(strange) < MostTaken
  /\ HostTakesOpen \/ ~\E r \in DOMAIN forks : forks[r].file = rel
  /\ host' = Without(host, rel)
  /\ side' = Without(side, rel)
  /\ truth' = Without(truth, rel)
  /\ strange' = strange \cup {rel}
  /\ forks' = [r \in DOMAIN forks |->
                 [forks[r] EXCEPT !.file = IF @ = rel THEN None ELSE @]]
  /\ UNCHANGED <<ids, resources, copies, nextFork, deskVars, sessions>>

(***************************************************************************)
(* The system                                                              *)
(***************************************************************************)
CatalogCall ==
  \E asked \in Asked :
    \/ GetFileDirParms(asked, TRUE)
    \/ OpenDir(asked)
    \/ \E kinds \in {BOOLEAN, {FALSE}}, start \in 1..MostObjects :
         Enumerate(asked, kinds, start, MostObjects)
    \/ \E finder \in Finders \cup {None}, outcome \in Outcomes : SetParms(asked, finder, outcome)
    \/ \E hard \in BOOLEAN, outcome \in Outcomes : CreateFile(asked, hard, outcome)
    \/ CreateDir(asked)
    \/ Delete(asked)
    \/ \E name \in NewNames : Rename(asked, name)
    \/ \E to \in AskedTo, name \in NewNames \cup {None} : MoveAndRename(asked, to, name)

ForkCall ==
  \E s \in Sessions :
    \/ \E asked \in Asked, resource \in BOOLEAN, access \in AccessModes :
         OpenFork(s, asked, resource, access)
    \/ \E ref \in DOMAIN forks :
         \/ \E offset \in -1..Longest, fromEnd \in BOOLEAN, byte \in Bytes :
              Write(s, ref, offset, fromEnd, <<byte>>)
         \/ \E length \in 0..Longest : SetForkParms(s, ref, length)
         \/ \E outcome \in Outcomes : FlushFork(s, ref, outcome) \/ CloseFork(s, ref, outcome)

DesktopCall ==
  \/ OpenDT
  \/ \E asked \in Asked :
       \/ \E creator \in Appl : AddAPPL(asked, creator) \/ RemoveAPPL(asked, creator)
       \/ \E comment \in Comments \cup {None} : AddComment(asked, comment)

SessionCall ==
  \E s \in Sessions :
    \/ OpenSession(s) \/ Login(s) \/ Logout(s)
    \/ \E outcome \in Outcomes : CloseSession(s, outcome)

HostActs ==
  \E rel \in Paths :
    \/ HostTakes(rel)
    \/ \E put \in HostPuts : HostMakes(rel, put.dir, put.locked, put.meta)

Next ==
  \/ CatalogCall \/ ForkCall \/ DesktopCall \/ SessionCall \/ HostActs

Spec == Init /\ [][Next]_vars

(***************************************************************************)
(* Properties                                                              *)
(***************************************************************************)
Partial(f, S, T) == DOMAIN f \subseteq S /\ \A x \in DOMAIN f : f[x] \in T

TypeOK ==
  /\ Partial(host, Paths, [dir : BOOLEAN, locked : BOOLEAN, data : Content]) /\ IsDir(Root)
  /\ Partial(side, Paths, Meta)
  /\ Partial(ids.byID, 2..LastID, Paths) /\ Partial(ids.byPath, Paths, DOMAIN ids.byID)
  /\ ids.next \in firstFreeID..LastID + 1
  /\ Partial(forks, 1..LastRef,
       [session : Sessions, rel : Paths, resource : BOOLEAN, access : Access,
        copy : {0} \cup DOMAIN copies, file : Paths \cup {None}])
  /\ Partial(resources, Paths, DOMAIN copies)
  /\ Partial(copies, 1..LastRef,
       [rel : Paths, data : Content, dirty : BOOLEAN, users : 1..LastRef])
  /\ nextFork \in 0..LastRef /\ scanned \in BOOLEAN
  /\ Partial(comments, Paths, Comments)
  /\ applications \in Seq([creator : Appl, rel : Paths])
  /\ sessions \in [Sessions -> {"closed", "open", "in"}]
  /\ DOMAIN truth = DOMAIN host /\ strange \subseteq Paths

\* A number handed out for something leads to it wherever the machine renames
\* and moves it, or the folders it is in, and nothing else takes its path: the
\* two maps of catalog.go agree on all that is there.
IdsFollow ==
  \A p \in DOMAIN truth : truth[p].id # 0 =>
    /\ p \in DOMAIN ids.byPath /\ ids.byPath[p] = truth[p].id
    /\ ids.byID[truth[p].id] = p

\* A fork read from its start, reply after reply, as far as they go.
ReadThrough(ref, newline) ==
  FoldLeft(LAMBDA sofar, n : sofar \o Read(ref, Len(sofar), QuantumSize, newline).bytes,
           <<>>, [n \in 1..Longest + 1 |-> n])

\* An open fork has the path its file is at on the host, and everyone who has
\* the resource fork of a file open has the one copy that the next who opens it
\* will have, whatever was renamed or moved meanwhile (forks.go: "one copy for
\* everyone who has it open").  Asked for by its number or by its file, it is
\* as long as what is read of it, at once or a line at a time, and the end of
\* it is told there and not before.
OpenTogether ==
  \A r \in DOMAIN forks : forks[r].file # None =>
    LET f == forks[r]
        told == FileParms(f.file)
    IN  /\ f.rel = f.file /\ GetForkParms(r) = told
        /\ f.resource => Shared(f.file) = f.copy /\ copies[f.copy].rel = f.file
        /\ f.resource \in told.open
        /\ "read" \in f.access => \A newline \in Bytes \cup {None} :
             /\ Len(ReadThrough(r, newline)) = told.length[f.resource]
             /\ \A offset \in 0..Longest :
                  (Read(r, offset, QuantumSize, None).result = "eofErr")
                    <=> offset + QuantumSize > told.length[f.resource]

\* No two open forks of a file ask for what the other denies.
DenyModesHold ==
  \A q, r \in DOMAIN forks :
    q # r /\ forks[q].file # None /\ forks[q].file = forks[r].file
      /\ forks[q].resource = forks[r].resource
      => ~Denied(forks[q].access, forks[r].access)

\* A fork is shared by those who have it open, and only as they asked.
ForksAreShared == OpenTogether /\ DenyModesHold

\* A session that is closed leaves no fork open, and a copy of a resource fork
\* is kept for as long as somebody has it open and no longer.
NothingLeftOpen ==
  /\ \A r \in DOMAIN forks : sessions[forks[r].session] # "closed"
  /\ \A c \in DOMAIN copies :
       copies[c].users = Cardinality({r \in DOMAIN forks : forks[r].resource /\ forks[r].copy = c})

OpenFor(rel) == \E r \in DOMAIN forks : forks[r].resource /\ forks[r].file = rel

\* What the machine last wrote of a file's resource fork and Finder
\* information is in the AppleDouble file beside it, wherever the file went,
\* but for a resource fork still open, which is in its copy; unless the host
\* failed to write it or had taken something from there, or hides the file.
MetadataFollows ==
  \A p \in DOMAIN truth : truth[p].own /\ ObjectThere(p) =>
    /\ Metadata(p).finder = truth[p].meta.finder
    /\ IF OpenFor(p) THEN copies[Shared(p)].data = truth[p].meta.resource
       ELSE Metadata(p).resource = truth[p].meta.resource

\* The comment and the creators of a file the machine is told are those it
\* gave it, and go with it and nothing else, unless the host had taken
\* something from there.
DesktopFollows ==
  \A p \in DOMAIN truth : truth[p].own =>
    /\ truth[p].comment = GetComment(p)
    /\ IsFile(p) => truth[p].creators =
         {a \in Appl : \E index \in 1..Len(applications) : GetAPPL(a, index) = p}
=============================================================================
