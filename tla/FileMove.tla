------------------------------- MODULE FileMove -------------------------------
(***************************************************************************)
(* Moving a database to another directory (objc/WCDB/util/file.cpp, called *)
(* from core/database_file.cpp): every file is hard-linked into the        *)
(* destination, then every file is removed from the source; if a link      *)
(* fails the links made so far are removed instead.                        *)
(*                                                                         *)
(* Every system call is a step, any of them may fail, and the process may  *)
(* die between two of them; the program then calls moveFiles again.  The   *)
(* database is closed and blockaded all along, as the documentation asks.  *)
(***************************************************************************)
EXTENDS Integers, Sequences

CONSTANTS
    MaxCalls,       \* calls of moveFiles (a bound)
    AccessMayFail,  \* whether access(2) may fail on a file that is there
    OldInDirectory, \* whether the destination may have files of another database
    NULL

ASSUME MoveAssumption ==
    /\ MaxCalls \in Nat
    /\ {AccessMayFail, OldInDirectory} \subseteq BOOLEAN
    /\ NULL \notin {"data", "YES", "NO"}

\* Database::subfixs: the files of a database, in the order of getPaths.
subfixs == <<"db", "wal", "journal", "shm", "backup">>

Files == DOMAIN subfixs

VARIABLES
    data,       \* the files the database had at first
    source,     \* source[i]: "data" if the file is there, or NULL
    directory,  \* directory[i]: "data", "old" or NULL, in the destination
    recovers,   \* the links this call has made
    pc, i, returned,
    calls

vars == <<data, source, directory, recovers, pc, i, returned, calls>>

Init ==
    /\ data \in {files \in SUBSET Files : 1 \in files}
    /\ source = [f \in Files |-> IF f \in data THEN "data" ELSE NULL]
    /\ directory \in [Files -> IF OldInDirectory THEN {NULL, "old"} ELSE {NULL}]
    /\ recovers = <<>>
    /\ pc = "idle"
    /\ i = 1
    /\ returned = NULL
    /\ calls = 0

-----------------------------------------------------------------------------

At(where) == pc = where /\ i \in Files

Advance(where) == i' = i + 1 /\ pc' = where

Return(answer) ==
    /\ pc' = "idle"
    /\ returned' = answer

\* The directory is there or can be made; otherwise nothing happens.
Call ==
    /\ pc = "idle"
    /\ calls < MaxCalls
    /\ calls' = calls + 1
    /\ \/ pc' = "access" /\ i' = 1 /\ returned' = NULL
       \/ Return("NO") /\ UNCHANGED i
    /\ recovers' = <<>>
    /\ UNCHANGED <<data, source, directory>>

\* isExists: FALSE if the file is not there, and also on an error.
Access ==
    /\ At("access")
    /\ \/ source[i] # NULL /\ pc' = "removeNew" /\ UNCHANGED i
       \/ (source[i] = NULL \/ AccessMayFail) /\ Advance("access")
    /\ UNCHANGED <<data, source, directory, recovers, returned, calls>>

RemoveNew ==
    /\ At("removeNew")
    /\ \/ /\ directory' = [directory EXCEPT ![i] = NULL]
          /\ pc' = "link"
          /\ UNCHANGED i
       \/ /\ pc' = "recover"
          /\ i' = 1
          /\ UNCHANGED directory
    /\ UNCHANGED <<data, source, recovers, returned, calls>>

\* Slip: a link that fails does not end the loop.
LinkGoesOn ==
    /\ At("link")
    /\ \/ /\ directory' = [directory EXCEPT ![i] = source[i]]
          /\ recovers' = Append(recovers, i)
       \/ UNCHANGED <<directory, recovers>>
    /\ Advance("access")
    /\ UNCHANGED <<data, source, returned, calls>>

\* Slip: rename(2), one file after the other.
LinkRenames ==
    /\ At("link")
    /\ \/ /\ directory' = [directory EXCEPT ![i] = source[i]]
          /\ source' = [source EXCEPT ![i] = NULL]
          /\ recovers' = Append(recovers, i)
          /\ Advance("access")
       \/ /\ pc' = "recover"
          /\ i' = 1
          /\ UNCHANGED <<source, directory, recovers>>
    /\ UNCHANGED <<data, returned, calls>>

Link ==
    /\ At("link")
    /\ \/ /\ directory' = [directory EXCEPT ![i] = source[i]]
          /\ recovers' = Append(recovers, i)
          /\ Advance("access")
       \/ /\ pc' = "recover"
          /\ i' = 1
          /\ UNCHANGED <<directory, recovers>>
    /\ UNCHANGED <<data, source, returned, calls>>

\* All links are there.
Linked ==
    /\ pc = "access"
    /\ i \notin Files
    /\ pc' = "removeOld"
    /\ i' = 1
    /\ UNCHANGED <<data, source, directory, recovers, returned, calls>>

\* removeFiles stops at the first file it cannot remove, and the move is a
\* success all the same.
RemoveOld ==
    /\ At("removeOld")
    /\ \/ /\ source' = [source EXCEPT ![i] = NULL]
          /\ Advance("removeOld")
          /\ UNCHANGED returned
       \/ /\ Return("YES")
          /\ UNCHANGED <<source, i>>
    /\ UNCHANGED <<data, directory, recovers, calls>>

Removed ==
    /\ pc = "removeOld"
    /\ i \notin Files
    /\ Return("YES")
    /\ UNCHANGED <<data, source, directory, recovers, i, calls>>

\* Slip: the files are removed where they came from.
RecoverRemovesSource ==
    /\ pc = "recover"
    /\ i <= Len(recovers)
    /\ source' = [source EXCEPT ![recovers[i]] = NULL]
    /\ i' = i + 1
    /\ UNCHANGED <<data, directory, recovers, pc, returned, calls>>

\* A link that cannot be removed stays.
Recover ==
    /\ pc = "recover"
    /\ i <= Len(recovers)
    /\ \/ directory' = [directory EXCEPT ![recovers[i]] = NULL]
       \/ UNCHANGED directory
    /\ i' = i + 1
    /\ UNCHANGED <<data, source, recovers, pc, returned, calls>>

Recovered ==
    /\ pc = "recover"
    /\ i > Len(recovers)
    /\ Return("NO")
    /\ UNCHANGED <<data, source, directory, recovers, i, calls>>

\* The process dies; what is on disk stays.
Crash ==
    /\ pc # "idle"
    /\ Return(NULL)
    /\ i' = 1
    /\ recovers' = <<>>
    /\ UNCHANGED <<data, source, directory, calls>>

Next ==
    \/ Call
    \/ Access
    \/ RemoveNew
    \/ Link
    \/ Linked
    \/ RemoveOld
    \/ Removed
    \/ Recover
    \/ Recovered
    \/ Crash

Spec == Init /\ [][Next]_vars

-----------------------------------------------------------------------------

(* The shape of the state.  Nobody but moveFiles touches the files.        *)
TypeOK ==
    /\ data \subseteq Files
    /\ source \in [Files -> {"data", NULL}]
    /\ \A f \in Files \ data : source[f] = NULL
    /\ directory \in [Files -> {"data", "old", NULL}]
    /\ pc \in {"idle", "access", "removeNew", "link", "removeOld", "recover"}
    /\ i \in 1..Len(subfixs) + 1
    /\ recovers \in Seq(Files) /\ Len(recovers) <= Len(subfixs)
    /\ returned \in {"YES", "NO", NULL}
    /\ calls \in 0..MaxCalls

(* No file of the database is ever without a name, whatever fails, however *)
(* often the process dies and the move is called again.                    *)
NothingLost == \A f \in data : source[f] = "data" \/ directory[f] = "data"

InSource == \A f \in data : source[f] = "data"
InDirectory == \A f \in data : directory[f] = "data"

(* WCTDatabase+File.h:37, "This interface can make sure all of your data   *)
(* is in source or destination": at every instant one of the two has the   *)
(* whole database, so a crash never leaves it divided.                     *)
WholeSomewhere == InSource \/ InDirectory

(* The same for a move that is called once.                                *)
WholeInOneCall == calls <= 1 => WholeSomewhere

(* WCTDatabase+File.h:41, "YES if all files are moved.": the answer YES    *)
(* finds every file in the destination, and NO, if the move was not an     *)
(* attempt to finish an earlier one, finds every file where it was.        *)
AnswerTrue ==
    /\ returned = "YES" => InDirectory
    /\ returned = "NO" /\ calls = 1 => InSource

(* WCTDatabase+File.h:35, "Move all database-related files ... safely":    *)
(* what is in the destination after a move are the files of this database  *)
(* and not the write-ahead log of one that was there before.               *)
NothingForeign == returned = "YES" => \A f \in Files : directory[f] # "old"

=============================================================================
