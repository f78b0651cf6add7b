------------------------------ MODULE MCFiles ------------------------------
(***************************************************************************)
(* Instances of the file system, of one file's contents and of main for    *)
(* TLC.  They share no state, and so one behaviour exercises one of them,  *)
(* chosen at the start, while the others stay as they are.                 *)
(***************************************************************************)
EXTENDS FileSystem, OpenFile, Boot, TLC

VARIABLE part

fileVars == <<part, fsVars, ofVars, bootVars>>

\* Up to three of the things that a command line may ask for, in any order.  The file "s"
\* is shorter than two transfers and "l" is longer; both do not fit on the disk.
MCWishes ==
  { <<"-f">>, <<"-cp", "s", "a">>, <<"-cp", "l", "a">>, <<"-r", "a">>, <<"-p", "a">>, <<"-x", "a">>,
    <<"-D">>, <<"-C">>, <<"-N">>, <<"-K", "1">>, <<"-rs", "5">>, <<"-m", "2">>, <<"-s">>, <<"-ci">> }
MCCommandLines ==
  {<<>>} \cup MCWishes \cup {v \o w : v, w \in MCWishes}
  \cup {<<"-f">> \o v \o w : v, w \in MCWishes}
MCUnixFiles == ("s" :> <<"1", "2", "3">>) @@ ("l" :> <<"1", "2", "3", "4", "5">>)

\* A header that lists a sector of the system's, and one that lists a file's.
MCGarbage == {<<0>>, <<6>>}

\* The names of the file system's files are all alike.
NameSymmetry == Permutations(Names)

Only(p) ==
  /\ part = p /\ UNCHANGED part
  /\ p # "file system" => UNCHANGED fsVars
  /\ p # "open file" => UNCHANGED ofVars
  /\ p # "boot" => UNCHANGED bootVars

FilesInit ==
  /\ part \in {"file system", "open file", "boot"}
  /\ FsInit /\ OfInit /\ BootInit
  /\ part = "boot" \/ commandLine = <<>>   \* one state for the others

FilesNext ==
  \/ Only("file system") /\ FsNext
  \/ Only("open file") /\ OfNext
  \/ Only("boot") /\ BootNext

FilesSpec == FilesInit /\ [][FilesNext]_fileVars
=============================================================================
