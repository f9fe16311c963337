------------------------------ MODULE MC_AFP ------------------------------
(***************************************************************************)
(* The AppleShare volume for TLC: a folder of the host with a folder       *)
(* Dir and a file Name in it, and NAME, which the machine does not tell    *)
(* from Name.                                                              *)
(***************************************************************************)
EXTENDS AFPVolume

CONSTANTS Dir, Name, NAME, Info, Note

MCFold == Dir :> 1 @@ Name :> 2 @@ NAME :> 2
MCRank == Dir :> 2 @@ Name :> 3 @@ NAME :> 1

Folder == [dir |-> TRUE, locked |-> FALSE, data |-> <<>>]
File == [Folder EXCEPT !.dir = FALSE]
Mangled(name) == [of |-> name, mangled |-> TRUE]

InFolders == {<<>> :> Folder @@ <<Dir>> :> Folder @@ <<Name>> :> File}
AFile == [dir |-> FALSE, locked |-> FALSE, meta |-> [NoMeta EXCEPT !.finder = Info]]

\* The machine cannot have the name of Dir as it is.
AnyPath ==
  {rootID} \X {<<>>, <<Mangled(Dir)>>, <<Plain(Name)>>, <<Mangled(Dir), Plain(Name)>>}
    \cup {<<firstFreeID, <<Plain(Name)>>>>}
FolderPath == {rootID} \X {<<>>, <<Mangled(Dir)>>}
InFolder == {<<>> :> Folder @@ <<Dir>> :> Folder @@ <<Dir, Name>> :> File}
ForkPath == {rootID} \X {<<Plain(Dir)>>, <<Plain(Dir), Plain(Name)>>, <<Plain(Name)>>, <<Plain(Name), Plain(Name)>>}
NoPath == {}
APlainFile == {AFile}
AtTheTop == {<<Name>>}
Writing == {"read", "write"}
Guarding == {"read", "write", "denyWrite"}
Modes == {Writing, Guarding}
=============================================================================
