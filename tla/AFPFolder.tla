----------------------------- MODULE AFPFolder -----------------------------
(***************************************************************************)
(* The folder of the host that the AppleShare server shares                *)
(* (src/afp/catalog.go, names.go, metadata.go): what is in it, the         *)
(* AppleDouble file beside each thing, the names the machine has for them  *)
(* and where a path of the machine leads.  The server keeps none of it in  *)
(* memory: it asks the host every time.                                    *)
(***************************************************************************)
EXTENDS Integers, Sequences, FiniteSets, SequencesExt

CONSTANTS
  Names,       \* the names something may have on the host
  Hidden,      \* those that start with a dot
  Inexact,     \* those the machine cannot have as they are
  Fold,        \* what a name is but for case
  Rank,        \* where a name comes when a folder is listed
  DotRank,     \* where a name that starts with a dot does
  VolumeName,  \* the name of the volume, for the machine
  Depth,       \* BOUND: how deep the folders go
  Finders,     \* what the Finder keeps of a file
  Bytes,       \* the bytes a fork is made of, 0 among them
  Longest,     \* BOUND: the longest fork
  Outcomes,    \* what the host makes of writing a file: it is "written", or it
               \* is "refused", or it is "cut" short
  Up,          \* a null of a path, which goes up one folder
  None

ASSUME FolderAssumption ==
  /\ IsFiniteSet(Names) /\ Hidden \subseteq Names /\ Inexact \subseteq Names \ Hidden
  /\ VolumeName \in Names \ (Hidden \cup Inexact)
  /\ DOMAIN Fold = Names /\ Rank \in [Names -> Nat]
  /\ \A m, n \in Names : Rank[m] = Rank[n] => m = n
  /\ \A n \in Hidden : Rank[n] >= DotRank
  /\ Depth \in Nat /\ Longest \in Nat /\ Bytes \subseteq Nat /\ 0 \in Bytes
  /\ Outcomes \subseteq {"written", "refused", "cut"}
  /\ None \notin Names \cup Finders \cup Nat /\ None \notin Seq(Names) /\ Up # None

VARIABLES
  host,  \* what is in the folder, by path
  side   \* the AppleDouble file of each thing, by its path

Paths == BoundedSeq(Names, Depth)
Root == <<>>
Content == BoundedSeq(Bytes, Longest)

ParentOf(rel) == Front(rel)

\* What may be in a folder of a host: all of it is in folders of its own.
IsTree(folder) ==
  /\ DOMAIN folder \subseteq Paths /\ Root \in DOMAIN folder /\ folder[Root].dir
  /\ \A p \in DOMAIN folder :
       /\ folder[p] \in [dir : BOOLEAN, locked : BOOLEAN, data : Content]
       /\ p # Root => ParentOf(p) \in DOMAIN folder /\ folder[ParentOf(p)].dir

\* Where something in a folder is once the folder went somewhere else.
Gone(rel, from, to) == to \o SubSeq(rel, Len(from) + 1, Len(rel))

\* A function of paths once what is in it at from or below went to to, and one
\* with what is there taken out.
Relocated(f, from, to) ==
  LET kept == {p \in DOMAIN f : ~IsPrefix(from, p)}
      went == {p \in DOMAIN f : IsPrefix(from, p)} IN
  [p \in {Gone(q, from, to) : q \in went} \cup kept |->
     IF IsPrefix(to, p) /\ from \o SubSeq(p, Len(to) + 1, Len(p)) \in went
     THEN f[from \o SubSeq(p, Len(to) + 1, Len(p))] ELSE f[p]]

Without(f, rel) == [p \in {q \in DOMAIN f : ~IsPrefix(rel, q)} |-> f[p]]

\* A function with one more in it, or with another in its place.
With(f, x, y) == [z \in {x} \cup DOMAIN f |-> IF z = x THEN y ELSE f[z]]

(***************************************************************************)
(* Names.  A name of the machine is that of the host or one mangled for it *)
(***************************************************************************)
MacName == [of : Names, mangled : BOOLEAN]

Plain(name) == [of |-> name, mangled |-> FALSE]

SameName(a, b) ==
  IF a.mangled \/ b.mangled THEN a = b ELSE Fold[a.of] = Fold[b.of]

Shown(folder) ==
  {name \in Names \ Hidden : Append(folder, name) \in DOMAIN host}

\* A name like that of one listed before is made unique, as is an inexact one.
NameAmong(shown, name) ==
  [of |-> name,
   mangled |-> \/ name \in Inexact
               \/ \E other \in shown \ Inexact :
                    Rank[other] < Rank[name] /\ Fold[other] = Fold[name]]

NameOf(folder, name) == NameAmong(Shown(folder), name)

\* Names in the order they are listed.
Listed(names) ==
  CHOOSE list \in [1..Cardinality(names) -> names] :
    \A i, j \in DOMAIN list : i < j => Rank[list[i]] < Rank[list[j]]

IsDir(rel) == rel \in DOMAIN host /\ host[rel].dir

Lookup(folder, name) ==
  LET shown == Shown(folder)
      like == {n \in shown : SameName(NameAmong(shown, n), name)}
  IN  IF like = {} THEN None ELSE CHOOSE n \in like : TRUE

(***************************************************************************)
(* Paths of the machine                                                    *)
(***************************************************************************)
Lost == [ok |-> FALSE, above |-> FALSE, folder |-> Root]
Above == [ok |-> TRUE, above |-> TRUE, folder |-> Root]
In(folder) == [ok |-> TRUE, above |-> FALSE, folder |-> folder]

FollowPart(at, part) ==
  IF ~at.ok \/ (part = Up /\ at.above) THEN Lost
  ELSE IF part = Up THEN IF at.folder = Root THEN Above ELSE In(ParentOf(at.folder))
  ELSE IF at.above THEN IF SameName(part, Plain(VolumeName)) THEN In(Root) ELSE Lost
  ELSE LET name == Lookup(at.folder, part) IN
       IF name # None /\ IsDir(Append(at.folder, name))
       THEN In(Append(at.folder, name)) ELSE Lost

\* A place: whether the path led somewhere, the folder it ends in, the last
\* name in it (None when it ended in a folder itself), and what the host has
\* by it, if it has.
Nowhere == [ok |-> FALSE, folder |-> Root, name |-> None, found |-> None]

ObjectThere(rel) ==
  rel = Root \/ (rel \in DOMAIN host /\ Last(rel) \notin Hidden)

FolderPlace(at) ==
  IF at.ok /\ ~at.above /\ ObjectThere(at.folder)
  THEN [ok |-> TRUE, folder |-> at.folder, name |-> None, found |-> None]
  ELSE Nowhere

\* Where the last part of a path leads, after those before it.
LastPart(before, part) ==
  IF part = Up \/ before.above \/ ~before.ok
  THEN FolderPlace(FollowPart(before, part))
  ELSE IF ~IsDir(before.folder) THEN Nowhere
  ELSE [ok |-> TRUE, folder |-> before.folder, name |-> part,
        found |-> Lookup(before.folder, part)]

\* Where its parts lead, one after the other.
Followed(start, parts) == FoldLeft(FollowPart, start, parts)

\* Where the path leads from the folder start, In(rel) of its number or Above.
Follow(start, path) ==
  IF path = <<>> THEN FolderPlace(start)
  ELSE LastPart(Followed(start, Front(path)), Last(path))

Exists(place) == place.ok /\ (place.name = None \/ place.found # None)

Rel(place) ==
  IF place.name = None THEN place.folder ELSE Append(place.folder, place.found)

\* Where something new is put: the name it has on the host is the one given.
NewRel(folder, name) == Append(folder, name.of)

(***************************************************************************)
(* Metadata                                                                *)
(***************************************************************************)
Meta == [finder : Finders \cup {None}, resource : Content]

NoMeta == [finder |-> None, resource |-> <<>>]

MetaIn(sides, rel) == IF rel \in DOMAIN sides THEN sides[rel] ELSE NoMeta

Metadata(rel) == MetaIn(side, rel)

\* It is refused where the folder it goes in is no longer there.
Allowed(rel, outcome) ==
  IF rel = Root \/ IsDir(ParentOf(rel)) THEN outcome ELSE "refused"

\* An AppleDouble file with nothing to keep is removed.
MetaWritten(sides, rel, meta, outcome) ==
  IF meta = NoMeta /\ outcome = "written" THEN [p \in DOMAIN sides \ {rel} |-> sides[p]]
  ELSE IF meta = NoMeta \/ outcome = "refused" THEN sides
  ELSE With(sides, rel, IF outcome = "cut" THEN NoMeta ELSE meta)

\* The same with the AppleDouble file beside it left behind: what the server
\* does not notice when the host refuses it, and the mutant of Renamed.
RenamedAlone(from, to) ==
  LET carried == Relocated([p \in DOMAIN side \ {from} |-> side[p]], from, to)
  IN  IF from \in DOMAIN side THEN With(carried, from, side[from]) ELSE carried

\* Something renamed: the host takes along the AppleDouble files in it, and the
\* server the one beside it, if it has one.
Renamed(from, to) ==
  LET beside == IF from \in DOMAIN side THEN from ELSE to
      carried == Relocated([p \in DOMAIN side \ {from, to} |-> side[p]], from, to)
  IN  IF beside \in DOMAIN side THEN With(carried, to, side[beside]) ELSE carried

=============================================================================
