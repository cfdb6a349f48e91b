----------------------- MODULE FileMove_Requests_proof ------------------------
(***************************************************************************)
(* FileMove for any number of calls and crashes: as long as access(2) is   *)
(* right about a file that is there, no file is ever without a name, one   *)
(* call leaves the database whole, and its answer is true.                 *)
(*                                                                         *)
(* Requests for any views, requests and serializers: what still shows when *)
(* nothing is under way was left by a request that ended without a word to *)
(* it, and how many requests go without the cookie that is stored.         *)
(***************************************************************************)
EXTENDS FileMove, Requests, TLAPS

Linking == {"access", "removeNew", "link"}

(* A file is passed over only when its link is there already, and removed  *)
(* from the source only when all links are; the links that are undone are  *)
(* of files that are still in the source.                                  *)
Progress ==
    /\ pc \in Linking => \A f \in data : f < i => directory[f] = "data"
    /\ pc \in {"removeNew", "link"} => i \in Files /\ source[i] = "data"
    /\ pc = "removeOld" => InDirectory
    /\ pc \in Linking \cup {"recover"} =>
           \A k \in 1..Len(recovers) : source[recovers[k]] = "data"
    /\ pc \in Linking => Len(recovers) < i

(* One call touches the source only when the links are made, and gives its *)
(* answer at the end.                                                      *)
FirstCall ==
    /\ calls = 0 => InSource /\ pc = "idle"
    /\ calls = 1 /\ pc \in Linking \cup {"recover"} => InSource
    /\ returned # NULL => pc = "idle"

IInv ==
    /\ TypeOK
    /\ Progress
    /\ NothingLost
    /\ FirstCall
    /\ WholeInOneCall
    /\ AnswerTrue

-----------------------------------------------------------------------------

(* The five files of a database.                                           *)
LEMMA FiveFiles == Len(subfixs) = 5 /\ Files = 1..5
  BY DEF Files, subfixs

LEMMA InitEstablishes == Init => IInv
<1> SUFFICES ASSUME Init PROVE IInv
  OBVIOUS
<1> USE FiveFiles, MoveAssumption
<1>1. TypeOK
  <2>1. source \in [Files -> {"data", NULL}] /\ directory \in [Files -> {"data", "old", NULL}]
    BY DEF Init
  <2>2. recovers \in Seq(Files) /\ Len(recovers) = 0
    BY DEF Init
  <2> QED
    BY <2>1, <2>2 DEF Init, TypeOK
<1>2. Progress /\ FirstCall /\ NothingLost /\ WholeInOneCall /\ AnswerTrue
  BY DEF Init, Progress, FirstCall, NothingLost, WholeInOneCall, WholeSomewhere,
     AnswerTrue, InSource, InDirectory, Linking
<1> QED
  BY <1>1, <1>2 DEF IInv

(* A step that touches neither the files nor the links it has made.        *)
LEMMA FilesAlone ==
    ASSUME IInv, UNCHANGED <<data, source, directory>>
    PROVE  NothingLost' /\ (InSource' <=> InSource) /\ (InDirectory' <=> InDirectory)
  BY DEF IInv, NothingLost, InSource, InDirectory

LEMMA StepKeeps ==
    ASSUME IInv, [Next]_vars, ~AccessMayFail
    PROVE  IInv'
<1> USE FiveFiles, MoveAssumption
<1>1. CASE Call
  <2>1. NothingLost' /\ (InSource' <=> InSource) /\ (InDirectory' <=> InDirectory)
    BY <1>1, FilesAlone DEF Call
  <2>2. Len(recovers') = 0 /\ recovers' \in Seq(Files)
    BY <1>1 DEF Call
  <2>3. TypeOK'
    BY <1>1, <2>2 DEF Call, Return, IInv, TypeOK
  <2>4. Progress'
    BY <1>1, <2>1, <2>2 DEF Call, Return, IInv, TypeOK, Progress, Linking
  <2>5. FirstCall'
    BY <1>1, <2>1 DEF Call, Return, IInv, TypeOK, FirstCall, Linking
  <2>6. WholeInOneCall' /\ AnswerTrue'
    BY <1>1, <2>1
    DEF Call, Return, IInv, TypeOK, FirstCall, WholeInOneCall, WholeSomewhere, AnswerTrue
  <2> QED
    BY <2>1, <2>3, <2>4, <2>5, <2>6 DEF IInv
<1>2. CASE Access
  <2>1. NothingLost' /\ (InSource' <=> InSource) /\ (InDirectory' <=> InDirectory)
    BY <1>2, FilesAlone DEF Access
  <2>2. TypeOK'
    BY <1>2 DEF Access, At, Advance, IInv, TypeOK
  <2>3. Progress'
    <3>1. CASE source[i] # NULL /\ pc' = "removeNew" /\ UNCHANGED i
      BY <1>2, <3>1 DEF Access, At, Advance, IInv, TypeOK, Progress, Linking
    <3>2. CASE source[i] = NULL /\ Advance("access")
      <4>1. i \in data => directory[i] = "data"
        BY <3>2 DEF IInv, NothingLost
      <4>2. \A f \in data : f < i' => directory'[f] = "data"
        BY <1>2, <3>2, <4>1 DEF Access, At, Advance, IInv, TypeOK, Progress, Linking
      <4> QED
        BY <1>2, <3>2, <4>2 DEF Access, At, Advance, IInv, TypeOK, Progress, Linking
    <3> QED
      BY <1>2, <3>1, <3>2 DEF Access
  <2>4. FirstCall' /\ WholeInOneCall' /\ AnswerTrue'
    BY <1>2, <2>1
    DEF Access, At, Advance, IInv, TypeOK, FirstCall, Linking, WholeInOneCall,
        WholeSomewhere, AnswerTrue
  <2> QED
    BY <2>1, <2>2, <2>3, <2>4 DEF IInv
<1>3. CASE RemoveNew
  <2>1. /\ pc = "removeNew" /\ i \in Files /\ source[i] = "data"
        /\ UNCHANGED <<data, source, recovers, returned, calls>>
    BY <1>3 DEF RemoveNew, At, IInv, Progress
  <2>2. \A f \in data : f # i => directory'[f] = directory[f]
    BY <1>3 DEF RemoveNew, IInv, TypeOK
  <2>3. TypeOK'
    BY <1>3 DEF RemoveNew, At, IInv, TypeOK
  <2>4. Progress'
    BY <1>3, <2>1, <2>2 DEF RemoveNew, IInv, TypeOK, Progress, Linking
  <2>5. NothingLost'
    BY <2>1, <2>2 DEF IInv, NothingLost
  <2>6. FirstCall' /\ WholeInOneCall' /\ AnswerTrue'
    BY <1>3, <2>1
    DEF RemoveNew, IInv, TypeOK, FirstCall, Linking, WholeInOneCall,
        WholeSomewhere, AnswerTrue, InSource
  <2> QED
    BY <2>3, <2>4, <2>5, <2>6 DEF IInv
<1>4. CASE Link
  <2>1. /\ pc = "link" /\ i \in Files /\ source[i] = "data"
        /\ UNCHANGED <<data, source, returned, calls>>
    BY <1>4 DEF Link, At, IInv, Progress
  <2>2. CASE /\ directory' = [directory EXCEPT ![i] = source[i]]
             /\ recovers' = Append(recovers, i)
             /\ Advance("access")
    <3>1. /\ recovers' \in Seq(Files) /\ Len(recovers') = Len(recovers) + 1
          /\ \A k \in 1..Len(recovers') :
                 recovers'[k] = IF k <= Len(recovers) THEN recovers[k] ELSE i
      BY <2>1, <2>2 DEF IInv, TypeOK
    <3>2. \A f \in data : directory'[f] = IF f = i THEN "data" ELSE directory[f]
      BY <2>1, <2>2 DEF IInv, TypeOK
    <3>3. TypeOK'
      BY <2>1, <2>2, <3>1 DEF Advance, IInv, TypeOK, Progress, Linking
    <3>4. \A k \in 1..Len(recovers') : source[recovers'[k]] = "data"
      BY <2>1, <3>1 DEF IInv, TypeOK, Progress, Linking
    <3>5. Progress'
      <4>1. \A f \in data : f < i' => directory'[f] = "data"
        BY <2>1, <2>2, <3>2 DEF Advance, IInv, TypeOK, Progress, Linking
      <4>2. Len(recovers') < i'
        BY <2>1, <2>2, <3>1 DEF Advance, IInv, TypeOK, Progress, Linking
      <4> QED
        BY <2>1, <2>2, <3>4, <4>1, <4>2 DEF Advance, Progress, Linking
    <3>6. NothingLost'
      BY <2>1, <3>2 DEF IInv, NothingLost
    <3>7. FirstCall' /\ WholeInOneCall' /\ AnswerTrue'
      BY <2>1, <2>2
      DEF Advance, IInv, TypeOK, FirstCall, Linking, WholeInOneCall,
          WholeSomewhere, AnswerTrue, InSource
    <3> QED
      BY <3>3, <3>5, <3>6, <3>7 DEF IInv
  <2>3. CASE pc' = "recover" /\ i' = 1 /\ UNCHANGED <<directory, recovers>>
    <3>1. TypeOK'
      BY <2>1, <2>3 DEF IInv, TypeOK
    <3>2. Progress'
      BY <2>1, <2>3 DEF IInv, TypeOK, Progress, Linking
    <3>3. NothingLost' /\ FirstCall' /\ WholeInOneCall' /\ AnswerTrue'
      BY <2>1, <2>3
      DEF IInv, TypeOK, FirstCall, Linking, NothingLost, WholeInOneCall,
          WholeSomewhere, AnswerTrue, InSource
    <3> QED
      BY <3>1, <3>2, <3>3 DEF IInv
  <2> QED
    BY <1>4, <2>2, <2>3 DEF Link
<1>5. CASE Linked
  <2>1. InDirectory
    <3>1. pc = "access" /\ \A f \in data : f < i
      BY <1>5 DEF Linked, IInv, TypeOK
    <3> QED
      BY <3>1 DEF IInv, Progress, Linking, InDirectory
  <2>2. NothingLost' /\ (InSource' <=> InSource) /\ InDirectory'
    BY <1>5, <2>1, FilesAlone DEF Linked
  <2>3. TypeOK' /\ Progress'
    BY <1>5, <2>2 DEF Linked, IInv, TypeOK, Progress, Linking
  <2>4. FirstCall' /\ WholeInOneCall' /\ AnswerTrue'
    BY <1>5, <2>2
    DEF Linked, IInv, TypeOK, FirstCall, Linking, WholeInOneCall, WholeSomewhere, AnswerTrue
  <2> QED
    BY <2>2, <2>3, <2>4 DEF IInv
<1>6. CASE RemoveOld \/ Removed
  <2>1. /\ pc = "removeOld" /\ InDirectory
        /\ UNCHANGED <<data, directory, recovers, calls>>
        /\ calls # 0
    BY <1>6 DEF RemoveOld, Removed, At, IInv, Progress, FirstCall
  <2>2. InDirectory' /\ NothingLost'
    BY <2>1 DEF InDirectory, NothingLost
  <2>3. source' \in [Files -> {"data", NULL}] /\ \A f \in Files \ data : source'[f] = NULL
    BY <1>6 DEF RemoveOld, Removed, At, IInv, TypeOK
  <2>4. TypeOK'
    BY <1>6, <2>1, <2>3 DEF RemoveOld, Removed, At, Advance, Return, IInv, TypeOK
  <2>5. Progress' /\ FirstCall' /\ WholeInOneCall' /\ AnswerTrue'
    BY <1>6, <2>1, <2>2
    DEF RemoveOld, Removed, Advance, Return, IInv, TypeOK, Progress, FirstCall, Linking,
        WholeInOneCall, WholeSomewhere, AnswerTrue
  <2> QED
    BY <2>2, <2>4, <2>5 DEF IInv
<1>7. CASE Recover
  <2>1. /\ pc = "recover" /\ i \in 1..Len(recovers) /\ source[recovers[i]] = "data"
        /\ UNCHANGED <<data, source, recovers, pc, returned, calls>>
        /\ i' = i + 1
    BY <1>7 DEF Recover, IInv, TypeOK, Progress
  <2>2. \A f \in Files : f # recovers[i] => directory'[f] = directory[f]
    BY <1>7 DEF Recover, IInv, TypeOK
  <2>3. TypeOK'
    BY <1>7, <2>1 DEF Recover, IInv, TypeOK
  <2>4. Progress' /\ NothingLost'
    BY <2>1, <2>2 DEF IInv, TypeOK, Progress, NothingLost, Linking
  <2>5. FirstCall' /\ WholeInOneCall' /\ AnswerTrue'
    BY <2>1
    DEF IInv, TypeOK, FirstCall, Linking, WholeInOneCall, WholeSomewhere, AnswerTrue, InSource
  <2> QED
    BY <2>3, <2>4, <2>5 DEF IInv
<1>8. CASE Recovered
  <2>1. NothingLost' /\ (InSource' <=> InSource) /\ (InDirectory' <=> InDirectory)
    BY <1>8, FilesAlone DEF Recovered
  <2>2. TypeOK' /\ Progress'
    BY <1>8 DEF Recovered, Return, IInv, TypeOK, Progress, Linking
  <2>3. FirstCall' /\ WholeInOneCall' /\ AnswerTrue'
    BY <1>8, <2>1
    DEF Recovered, Return, IInv, TypeOK, FirstCall, Linking, WholeInOneCall,
        WholeSomewhere, AnswerTrue
  <2> QED
    BY <2>1, <2>2, <2>3 DEF IInv
<1>9. CASE Crash
  <2>1. NothingLost' /\ (InSource' <=> InSource) /\ (InDirectory' <=> InDirectory)
    BY <1>9, FilesAlone DEF Crash
  <2>2. TypeOK' /\ Progress'
    BY <1>9 DEF Crash, Return, IInv, TypeOK, Progress, Linking
  <2>3. FirstCall' /\ WholeInOneCall' /\ AnswerTrue'
    BY <1>9, <2>1
    DEF Crash, Return, IInv, TypeOK, FirstCall, Linking, WholeInOneCall,
        WholeSomewhere, AnswerTrue
  <2> QED
    BY <2>1, <2>2, <2>3 DEF IInv
<1>10. CASE UNCHANGED vars
  BY <1>10
  DEF vars, IInv, TypeOK, Progress, FirstCall, NothingLost, WholeInOneCall,
      WholeSomewhere, AnswerTrue, InSource, InDirectory
<1> QED
  BY <1>1, <1>2, <1>3, <1>4, <1>5, <1>6, <1>7, <1>8, <1>9, <1>10 DEF Next

-----------------------------------------------------------------------------

(* The invariant of moveFiles (util/file.cpp), whatever fails and however  *)
(* often the process dies and calls it again.                              *)
THEOREM Invariance == ASSUME ~AccessMayFail PROVE Spec => []IInv
<1>1. Init => IInv
  BY InitEstablishes
<1>2. IInv /\ [Next]_vars => IInv'
  BY StepKeeps
<1> QED
  BY <1>1, <1>2, PTL DEF Spec

(* No file of the database is ever without a name.                         *)
THEOREM NothingEverLost == ASSUME ~AccessMayFail PROVE Spec => []NothingLost
<1>1. IInv => NothingLost
  BY DEF IInv
<1> QED
  BY <1>1, Invariance, PTL

(* A move that is called once leaves the whole database on one side, at    *)
(* every instant (WCTDatabase+File.h:37).                                  *)
THEOREM OneCallWhole == ASSUME ~AccessMayFail PROVE Spec => []WholeInOneCall
<1>1. IInv => WholeInOneCall
  BY DEF IInv
<1> QED
  BY <1>1, Invariance, PTL

(* YES means that all files are in the destination, and the NO of the      *)
(* first call that none has left the source (WCTDatabase+File.h:41).       *)
THEOREM AnswersTrue == ASSUME ~AccessMayFail PROVE Spec => []AnswerTrue
<1>1. IInv => AnswerTrue
  BY DEF IInv
<1> QED
  BY <1>1, Invariance, PTL

-----------------------------------------------------------------------------
Stages == {"unsent", "flying", "delegate", "posted", "dealt", "empty", "left"}

Ends == {"dealt", "empty", "left"}

Record == [stage : Stages, kind : Kinds, owner : Owners \cup {None},
           showed : BOOLEAN, toggled : BOOLEAN]

RequestTypes == request \in [Requests -> Record]

(* What request r stands for on the screen: nothing before it is sent, and *)
(* while it is under way, unless afn_showHud was changed meanwhile, what   *)
(* its view will do with the HUD when it is dealt with.                    *)
Sent(r) ==
    /\ request[r].stage = "unsent" => request[r] = Unsent
    /\ r \in Pending =>
           /\ request[r].owner \in Owners
           /\ ~request[r].toggled => request[r].showed = afn_showHud[request[r].owner]

(* A HUD or an indicator that shows is owed to a request that is under way *)
(* or has ended without a word to it.                                      *)
HudOwed == hud => \E r \in Requests : request[r].showed /\ (r \in Pending \/ KeepsHud(r))

IndicatorOwed == networkActivityIndicatorVisible =>
                     \E r \in Requests : r \in Pending \/ KeepsIndicator(r)

RInv ==
    /\ NetTypeOK
    /\ RequestTypes
    /\ \A r \in Requests : Sent(r)
    /\ HudOwed
    /\ IndicatorOwed

-----------------------------------------------------------------------------

(* Nothing shows and nothing is under way.                                 *)
LEMMA InitRequests == NetInit => RInv
<1> SUFFICES ASSUME NetInit PROVE RInv
  OBVIOUS
<1>1. visible \in Owners
  BY RequestsAssumption DEF NetInit
<1>2. Unsent \in Record
  BY DEF Unsent, Record, Stages, Kinds
<1>3. NetTypeOK
  <2>1. /\ configured \in Serializers /\ requestSerializer \in Serializers
        /\ header \in [Serializers -> Cookies \cup {None}]
        /\ missed = {}
    BY RequestsAssumption DEF NetInit, Serializers
  <2>2. /\ alive \subseteq Owners /\ visible \in alive
        /\ afn_showHud \in [Owners -> BOOLEAN] /\ userDefaults \in Cookies \cup {None}
        /\ {hud, networkActivityIndicatorVisible} \subseteq BOOLEAN
    BY <1>1 DEF NetInit
  <2> QED
    BY <2>1, <2>2 DEF NetTypeOK
<1>4. RequestTypes
  BY <1>2 DEF NetInit, RequestTypes
<1>5. ASSUME NEW r \in Requests PROVE Sent(r)
  BY DEF NetInit, Sent, Pending, Unsent
<1> QED
  BY <1>3, <1>4, <1>5 DEF NetInit, RInv, HudOwed, IndicatorOwed

(* The head of a request leaves the manager with a serializer it knows.    *)
LEMMA PrepareTypes ==
    ASSUME RInv, Prepare, UNCHANGED <<appVars>>
    PROVE  /\ configured' \in Serializers /\ requestSerializer' \in Serializers
           /\ header' \in [Serializers -> Cookies \cup {None}]
           /\ header'[requestSerializer] = userDefaults
<1>1. /\ userDefaults \in Cookies \cup {None} /\ configured \in Serializers
      /\ requestSerializer \in Serializers
      /\ header \in [Serializers -> Cookies \cup {None}]
  BY DEF RInv, NetTypeOK
<1>2. /\ configured' = configured
      /\ header' = [header EXCEPT ![requestSerializer] = userDefaults]
  BY DEF Prepare, networkManager, appVars
<1>3. requestSerializer' = IF configured # 0 THEN configured ELSE requestSerializer
  BY DEF Prepare
<1> QED
  BY <1>1, <1>2, <1>3

(* A request shows the HUD if its view wants it, and the indicator.        *)
LEMMA SendPreserves ==
    ASSUME RInv, NEW o \in Owners, NEW r \in Requests, NEW kind \in Kinds, Send(o, r, kind)
    PROVE  RInv'
<1> DEFINE new == [Unsent EXCEPT !.stage = "flying", !.kind = kind, !.owner = o,
                                 !.showed = afn_showHud[o]]
<1>1. /\ o \in alive /\ request[r].stage = "unsent"
      /\ hud' = (hud \/ afn_showHud[o]) /\ networkActivityIndicatorVisible' = TRUE
      /\ Prepare
      /\ request' = [request EXCEPT ![r] = new]
      /\ UNCHANGED <<alive, visible, afn_showHud, userDefaults, configured>>
  BY DEF Send, screenVars, appVars
<1>2. /\ new \in Record
      /\ new.stage = "flying" /\ new.owner = o /\ new.showed = afn_showHud[o]
      /\ new.toggled = FALSE
  <2>1. Unsent \in Record /\ Unsent.toggled = FALSE
    BY DEF Unsent, Record, Stages, Kinds
  <2>2. afn_showHud[o] \in BOOLEAN
    BY DEF RInv, NetTypeOK
  <2> QED
    BY <2>1, <2>2 DEF Record, Stages, new
<1> HIDE DEF new
<1>3. NetTypeOK'
  <2>0. afn_showHud \in [Owners -> BOOLEAN] /\ hud \in BOOLEAN
    BY DEF RInv, NetTypeOK
  <2>1. /\ configured' \in Serializers /\ requestSerializer' \in Serializers
        /\ header' \in [Serializers -> Cookies \cup {None}]
    BY <1>1, PrepareTypes DEF appVars
  <2>2. hud' \in BOOLEAN /\ missed' \subseteq Requests
    BY <1>1, <2>0 DEF RInv, NetTypeOK, Send
  <2> QED
    BY <1>1, <2>1, <2>2 DEF RInv, NetTypeOK, Serializers
<1>4. RequestTypes'
  BY <1>1, <1>2 DEF RInv, RequestTypes, Record, Stages
<1>5. /\ request'[r] = new /\ r \in Pending'
      /\ \A q \in Requests \ {r} :
             request'[q] = request[q] /\ (q \in Pending' <=> q \in Pending)
  BY <1>1, <1>2 DEF RInv, RequestTypes, Record, Pending
<1>6. ASSUME NEW q \in Requests PROVE Sent(q)'
  <2>1. Sent(q)
    BY DEF RInv
  <2> QED
    BY <1>1, <1>2, <1>5, <2>1 DEF Sent
<1>7. HudOwed'
  <2>1. CASE afn_showHud[o]
    BY <1>2, <1>5, <2>1 DEF HudOwed
  <2>2. CASE ~afn_showHud[o]
    <3> SUFFICES ASSUME hud PROVE HudOwed'
      BY <1>1, <2>2 DEF HudOwed
    <3>1. PICK q \in Requests : request[q].showed /\ (q \in Pending \/ KeepsHud(q))
      BY DEF RInv, HudOwed
    <3>2. q # r
      BY <1>1, <3>1 DEF RInv, Sent, Unsent
    <3> QED
      BY <1>5, <3>1, <3>2 DEF HudOwed, KeepsHud, KeepsIndicator
  <2> QED
    BY <2>1, <2>2
<1>8. IndicatorOwed'
  BY <1>5 DEF IndicatorOwed
<1> QED
  BY <1>3, <1>4, <1>6, <1>7, <1>8 DEF RInv

(* A request goes on to its next stage and is still under way.             *)
LEMMA MovesOn ==
    ASSUME RInv, NEW r \in Requests, Reply(r) \/ DidComplete(r)
    PROVE  RInv'
<1>1. PICK s \in {"delegate", "posted"} :
        /\ r \in Pending
        /\ request' = [request EXCEPT ![r].stage = s]
        /\ UNCHANGED <<alive, visible, afn_showHud, requestSerializer, header, missed, userDefaults,
                       configured, hud, networkActivityIndicatorVisible>>
  BY DEF Reply, DidComplete, Pending, screenVars, managerVars, appVars, shown
<1>2. request'[r] = [request[r] EXCEPT !.stage = s]
  BY <1>1 DEF RInv, RequestTypes, Record
<1>3. \A q \in Requests \ {r} : request'[q] = request[q]
  BY <1>1 DEF RInv, RequestTypes, Record
<1>4. /\ request'[r].owner = request[r].owner /\ request'[r].showed = request[r].showed
      /\ request'[r].toggled = request[r].toggled /\ request'[r].stage = s
  BY <1>2 DEF RInv, RequestTypes, Record
<1>5. Pending' = Pending
  BY <1>1, <1>3, <1>4 DEF Pending
<1>6. NetTypeOK'
  BY <1>1 DEF RInv, NetTypeOK, Serializers
<1>7. RequestTypes'
  BY <1>1 DEF RInv, RequestTypes, Record, Stages
<1>8. ASSUME NEW q \in Requests PROVE Sent(q)'
  <2>1. Sent(q) /\ Sent(r)
    BY DEF RInv
  <2> QED
    BY <1>1, <1>3, <1>4, <1>5, <2>1 DEF Sent
<1>9. ASSUME NEW q \in Requests, q \in Pending \/ KeepsHud(q)
      PROVE  q \in Pending' \/ KeepsHud(q)'
  BY <1>1, <1>3, <1>5, <1>9 DEF KeepsHud, KeepsIndicator
<1>10. ASSUME NEW q \in Requests PROVE request'[q].showed = request[q].showed
  BY <1>3, <1>4
<1>11. HudOwed'
  BY <1>1, <1>9, <1>10 DEF RInv, HudOwed
<1>12. IndicatorOwed'
  BY <1>1, <1>3, <1>5 DEF RInv, IndicatorOwed, KeepsIndicator
<1> QED
  BY <1>6, <1>7, <1>8, <1>11, <1>12 DEF RInv

(* Of a request that is over only whether it showed the HUD counts, and    *)
(* how it ended: everybody else stays as he was.                           *)
LEMMA EndsAre ==
    ASSUME RInv, NEW over \in SUBSET Pending, NEW how \in Ends,
           request' = [r \in Requests |-> request'[r]],
           \A r \in over : request'[r] = Ended(r, how),
           \A r \in Requests \ over : request'[r] = request[r],
           UNCHANGED afn_showHud
    PROVE  /\ RequestTypes'
           /\ \A r \in Requests : Sent(r)'
           /\ Pending' = Pending \ over
           /\ \A r \in Requests \ over : request'[r] = request[r]
           /\ \A r \in over : /\ request'[r].stage = how
                              /\ request'[r].showed = request[r].showed
                              /\ request'[r].toggled = request[r].toggled
<1>1. \A r \in Requests : request[r] \in Record
  BY DEF RInv, RequestTypes, Record
<1>2. over \subseteq Requests
  BY DEF Pending
<1>3. ASSUME NEW r \in over
      PROVE  /\ request'[r] \in Record
             /\ request'[r].stage = how
             /\ request'[r].showed = request[r].showed
             /\ request'[r].toggled = request[r].toggled
  <2>1. r \in Requests /\ request'[r] = Ended(r, how)
    BY <1>2
  <2> QED
    BY <1>1, <2>1 DEF Ends, Ended, Record, Stages, Kinds
<1>4. \A r \in Requests \ over : request'[r] = request[r]
  OBVIOUS
<1>5. RequestTypes'
  <2>1. \A r \in Requests : request'[r] \in Record
    BY <1>1, <1>3, <1>4
  <2>2. request' = [r \in Requests |-> request'[r]]
    OBVIOUS
  <2> QED
    BY <2>1, <2>2 DEF RequestTypes
<1>6. Pending' = Pending \ over
  BY <1>2, <1>3, <1>4 DEF Ends, Pending
<1>7. ASSUME NEW r \in Requests PROVE Sent(r)'
  <2>1. Sent(r)
    BY DEF RInv
  <2>2. CASE r \in over
    BY <1>3, <1>6, <2>2 DEF Ends, Sent
  <2>3. CASE r \notin over
    BY <1>4, <1>6, <2>1, <2>3 DEF Ends, Sent
  <2> QED
    BY <2>2, <2>3
<1> QED
  BY <1>3, <1>4, <1>5, <1>6, <1>7

(* A request that is dealt with hides the HUD if its view wants it by then; *)
(* one that is empty or left hides nothing, which KeepsHud remembers.      *)
LEMMA CompletePreserves ==
    ASSUME RInv, NEW r \in Requests, Complete(r)
    PROVE  RInv'
<1>1. PICK how \in Ends :
        /\ request[r].stage = "posted"
        /\ request' = [request EXCEPT ![r] = Ended(r, how)]
        /\ UNCHANGED <<alive, visible, afn_showHud, requestSerializer, header, missed, userDefaults,
                       configured>>
        /\ \/ how = "left" /\ UNCHANGED <<hud, networkActivityIndicatorVisible>>
           \/ /\ how = "empty" /\ UNCHANGED hud
              /\ networkActivityIndicatorVisible' = FALSE
           \/ /\ how = "dealt" /\ networkActivityIndicatorVisible' = FALSE
              /\ hud' = IF afn_showHud[request[r].owner] THEN FALSE ELSE hud
  BY DEF Ends, Complete, Completes, DealWithSuccess, DealWithEmpty, DealWithFailError,
         Downloaded, Orphaned, HideIfShown, hideHUD, screenVars, managerVars, appVars, shown
<1>2. r \in Pending /\ {r} \in SUBSET Pending
  BY <1>1 DEF Pending
<1>3. /\ request' = [q \in Requests |-> request'[q]]
      /\ request'[r] = Ended(r, how)
      /\ \A q \in Requests \ {r} : request'[q] = request[q]
  BY <1>1 DEF RInv, RequestTypes, Record
<1>4. /\ RequestTypes'
      /\ \A q \in Requests : Sent(q)'
      /\ Pending' = Pending \ {r}
      /\ \A q \in Requests \ {r} : request'[q] = request[q]
      /\ request'[r].stage = how
      /\ request'[r].showed = request[r].showed
      /\ request'[r].toggled = request[r].toggled
  <2> DEFINE over == {r}
  <2>1. over \in SUBSET Pending /\ over = {r}
    BY <1>2
  <2>2. /\ request' = [q \in Requests |-> request'[q]]
        /\ \A q \in over : request'[q] = Ended(q, how)
        /\ \A q \in Requests \ over : request'[q] = request[q]
    BY <1>3
  <2>3. UNCHANGED afn_showHud
    BY <1>1
  <2> HIDE DEF over
  <2>4. /\ RequestTypes'
        /\ \A q \in Requests : Sent(q)'
        /\ Pending' = Pending \ over
        /\ \A q \in Requests \ over : request'[q] = request[q]
        /\ \A q \in over : /\ request'[q].stage = how
                           /\ request'[q].showed = request[q].showed
                           /\ request'[q].toggled = request[q].toggled
    BY <2>1, <2>2, <2>3, EndsAre
  <2> QED
    BY <2>1, <2>4
<1>5. NetTypeOK'
  BY <1>1 DEF RInv, NetTypeOK, Serializers
<1>6. HudOwed'
  <2> SUFFICES ASSUME hud' PROVE HudOwed'
    BY DEF HudOwed
  <2>1. hud
    BY <1>1
  <2>2. PICK q \in Requests : request[q].showed /\ (q \in Pending \/ KeepsHud(q))
    BY <2>1 DEF RInv, HudOwed
  <2>3. CASE q # r
    BY <1>4, <2>2, <2>3 DEF HudOwed, KeepsHud, KeepsIndicator
  <2>4. CASE q = r
    <3>1. CASE how = "dealt"
      <4>1. ~afn_showHud[request[r].owner]
        BY <1>1, <3>1
      <4>2. request[r].toggled
        BY <1>2, <2>2, <2>4, <4>1 DEF RInv, Sent
      <4> QED
        BY <1>4, <2>2, <2>4, <4>2 DEF HudOwed, KeepsHud
    <3>2. CASE how # "dealt"
      BY <1>1, <1>4, <2>2, <2>4, <3>2 DEF Ends, HudOwed, KeepsHud, KeepsIndicator
    <3> QED
      BY <3>1, <3>2
  <2> QED
    BY <2>3, <2>4
<1>7. IndicatorOwed'
  <2> SUFFICES ASSUME networkActivityIndicatorVisible' PROVE IndicatorOwed'
    BY DEF IndicatorOwed
  <2>1. how = "left"
    BY <1>1
  <2> QED
    BY <1>4, <2>1 DEF IndicatorOwed, KeepsIndicator
<1> QED
  BY <1>4, <1>5, <1>6, <1>7 DEF RInv

(* Another screen: what waited in the queue of the last one is left.       *)
LEMMA ShowPreserves ==
    ASSUME RInv, NEW o \in Owners, Show(o)
    PROVE  RInv'
<1>1. /\ o \in alive /\ visible' = o /\ networkManager
      /\ request' = [r \in Requests |->
             IF request[r].stage = "delegate" THEN Ended(r, "left") ELSE request[r]]
      /\ UNCHANGED <<alive, afn_showHud, requestSerializer, missed, userDefaults, configured,
                     hud,                      networkActivityIndicatorVisible>>
  BY DEF Show, appVars, shown
<1>2. PICK over \in SUBSET Pending : over = {r \in Requests : request[r].stage = "delegate"}
  BY DEF Pending
<1>3. /\ request' = [r \in Requests |-> request'[r]]
      /\ \A r \in over : request'[r] = Ended(r, "left")
      /\ \A r \in Requests \ over : request'[r] = request[r]
  BY <1>1, <1>2
<1>4. /\ RequestTypes'
      /\ \A q \in Requests : Sent(q)'
      /\ Pending' = Pending \ over
      /\ \A q \in Requests \ over : request'[q] = request[q]
      /\ \A q \in over : /\ request'[q].stage = "left"
                         /\ request'[q].showed = request[q].showed
                         /\ request'[q].toggled = request[q].toggled
  <2>1. "left" \in Ends
    BY DEF Ends
  <2> QED
    <3>1. UNCHANGED afn_showHud
      BY <1>1
    <3> QED
      BY <1>3, <2>1, <3>1, EndsAre
<1>5. NetTypeOK'
  BY <1>1 DEF RInv, NetTypeOK, Serializers, networkManager
<1>6. ASSUME NEW q \in Requests
      PROVE  /\ request'[q].showed = request[q].showed
             /\ q \in Pending \/ KeepsHud(q) => q \in Pending' \/ KeepsHud(q)'
             /\ q \in Pending \/ KeepsIndicator(q) => q \in Pending' \/ KeepsIndicator(q)'
  BY <1>4 DEF KeepsHud, KeepsIndicator
<1>7. HudOwed' /\ IndicatorOwed'
  BY <1>1, <1>6 DEF RInv, HudOwed, IndicatorOwed
<1> QED
  BY <1>4, <1>5, <1>7 DEF RInv

(* afn_showHud changes under the requests of its view, which are toggled.  *)
LEMMA SetShowHudPreserves ==
    ASSUME RInv, NEW o \in Owners, SetShowHud(o)
    PROVE  RInv'
<1>1. /\ afn_showHud' = [afn_showHud EXCEPT ![o] = ~@]
      /\ request' = [r \in Requests |->
             IF r \in Pending /\ request[r].owner = o
             THEN [request[r] EXCEPT !.toggled = TRUE] ELSE request[r]]
      /\ UNCHANGED <<alive, visible, requestSerializer, header, missed, userDefaults, configured, hud,
                     networkActivityIndicatorVisible>>
  BY DEF SetShowHud, managerVars, appVars, shown
<1>2. \A r \in Requests : request[r] \in Record
  BY DEF RInv, RequestTypes
<1>3. ASSUME NEW r \in Requests
      PROVE  /\ request'[r] \in Record
             /\ request'[r].stage = request[r].stage /\ request'[r].owner = request[r].owner
             /\ request'[r].showed = request[r].showed
             /\ request[r].toggled => request'[r].toggled
             /\ r \in Pending /\ request[r].owner = o => request'[r].toggled
             /\ ~(r \in Pending /\ request[r].owner = o) => request'[r] = request[r]
  BY <1>1, <1>2 DEF Record
<1>4. Pending' = Pending
  BY <1>3 DEF Pending
<1>5. NetTypeOK'
  BY <1>1 DEF RInv, NetTypeOK, Serializers
<1>6. RequestTypes'
  <2>1. request' = [r \in Requests |-> request'[r]]
    BY <1>1
  <2> QED
    BY <1>3, <2>1 DEF RequestTypes
<1>7. ASSUME NEW r \in Requests PROVE Sent(r)'
  <2>1. Sent(r)
    BY DEF RInv
  <2>2. request[r].stage = "unsent" => r \notin Pending
    BY DEF Pending
  <2>3. afn_showHud \in [Owners -> BOOLEAN]
    BY DEF RInv, NetTypeOK
  <2>4. CASE r \in Pending /\ request[r].owner = o
    BY <1>3, <1>4, <2>1, <2>2, <2>4 DEF Sent
  <2>5. CASE ~(r \in Pending /\ request[r].owner = o)
    BY <1>1, <1>3, <1>4, <2>1, <2>3, <2>5 DEF Sent
  <2> QED
    BY <2>4, <2>5
<1>8. HudOwed' /\ IndicatorOwed'
  <2>1. ASSUME NEW q \in Requests
        PROVE  /\ q \in Pending \/ KeepsHud(q) => q \in Pending' \/ KeepsHud(q)'
               /\ q \in Pending \/ KeepsIndicator(q) => q \in Pending' \/ KeepsIndicator(q)'
    BY <1>3, <1>4 DEF KeepsHud, KeepsIndicator
  <2> QED
    BY <1>1, <1>3, <2>1 DEF RInv, HudOwed, IndicatorOwed
<1> QED
  BY <1>5, <1>6, <1>7, <1>8 DEF RInv

(* Each step keeps the invariant.                                          *)
LEMMA NextRequests == RInv /\ [NetNext]_netVars => RInv'
<1> SUFFICES ASSUME RInv, [NetNext]_netVars PROVE RInv'
  OBVIOUS
<1>1. CASE \/ \E c \in Cookies \cup {None} : SetCookie(c)
           \/ \E s \in Serializers : InitWithHost(s)
           \/ \E o \in Owners : Dealloc(o)
           \/ UNCHANGED netVars
  <2>1. UNCHANGED <<afn_showHud, header, requestSerializer, hud,
                    networkActivityIndicatorVisible,
                    request, visible>>
    BY <1>1 DEF SetCookie, InitWithHost, Dealloc, netVars, screenVars, managerVars, appVars,
           shown
  <2>2. alive' \subseteq Owners /\ visible' \in alive'
    BY <1>1 DEF SetCookie, InitWithHost, Dealloc, netVars, screenVars, managerVars, appVars,
           shown, RInv, NetTypeOK
  <2>3. /\ userDefaults' \in Cookies \cup {None} /\ configured' \in Serializers
        /\ missed' \subseteq Requests
    BY <1>1 DEF SetCookie, InitWithHost, Dealloc, netVars, screenVars, managerVars, appVars,
           shown, RInv, NetTypeOK
  <2>4. NetTypeOK'
    BY <2>1, <2>2, <2>3 DEF RInv, NetTypeOK, Serializers
  <2>5. RequestTypes' /\ \A r \in Requests : Sent(r)'
    BY <2>1 DEF RInv, RequestTypes, Record, Sent, Pending
  <2>6. HudOwed' /\ IndicatorOwed'
    BY <2>1 DEF RInv, HudOwed, IndicatorOwed, Pending, KeepsHud, KeepsIndicator
  <2> QED
    BY <2>4, <2>5, <2>6 DEF RInv
<1>2. CASE \E o \in Owners : SetShowHud(o) \/ Show(o)
  BY <1>2, SetShowHudPreserves, ShowPreserves
<1>3. CASE \E o \in Owners, r \in Requests, kind \in Kinds : Send(o, r, kind)
  BY <1>3, SendPreserves
<1>4. CASE \E r \in Requests : Reply(r) \/ DidComplete(r) \/ Complete(r)
  BY <1>4, MovesOn, CompletePreserves
<1> QED
  BY <1>1, <1>2, <1>3, <1>4 DEF NetNext

(* A HUD and an indicator that show are always owed to some request:      *)
(* UIView+APPViewRequest.m:66-215 with AFNManager.m.                      *)
THEOREM RequestsInvariance == NetSpec => []RInv
BY InitRequests, NextRequests, PTL DEF NetSpec

(* When nothing is under way, what still shows is left by a request that   *)
(* ended without a word to it, for any views, requests and overlaps        *)
(* (UIView+APPViewRequest.m, hideHUD after each kind of answer).           *)
THEOREM SettledAlways == NetSpec => []Settled
<1>1. RInv => Settled
  BY DEF RInv, Settled, HudOwed, IndicatorOwed
<1> QED
  BY <1>1, RequestsInvariance, PTL

(* Once a request has gone without the cookie, the manager has the         *)
(* serializer that is configured, and no other will.                       *)
CookieServed ==
    /\ missed # {} => requestSerializer = configured
    /\ CookieMissedOnce

(* Only a request that gives the manager another serializer can miss.      *)
LEMMA ServedKept == RInv /\ CookieServed /\ [NetNext]_netVars => CookieServed'
<1> SUFFICES ASSUME RInv, CookieServed, [NetNext]_netVars PROVE CookieServed'
  OBVIOUS
<1>1. ASSUME NEW o \in Owners, NEW r \in Requests, NEW kind \in Kinds, Send(o, r, kind)
      PROVE  CookieServed'
  <2>1. /\ Prepare /\ UNCHANGED <<appVars>>
        /\ missed' = IF kind = "request" /\ header'[requestSerializer'] # userDefaults
                     THEN missed \cup {r} ELSE missed
    BY <1>1 DEF Send
  <2>2. header'[requestSerializer] = userDefaults
    BY <2>1, PrepareTypes
  <2>3. /\ configured' = configured
        /\ requestSerializer' = IF configured # 0 THEN configured ELSE requestSerializer
    BY <2>1 DEF Prepare, appVars
  <2>4. CASE requestSerializer' = requestSerializer
    BY <2>1, <2>2, <2>3, <2>4 DEF CookieServed, CookieMissedOnce
  <2>5. CASE requestSerializer' # requestSerializer
    <3>1. missed = {} /\ requestSerializer' = configured'
      BY <2>3, <2>5 DEF CookieServed
    <3>2. missed' \subseteq {r}
      BY <2>1, <3>1
    <3> QED
      BY <3>1, <3>2 DEF CookieServed, CookieMissedOnce
  <2> QED
    BY <2>4, <2>5
<1>2. ASSUME NEW s \in Serializers, InitWithHost(s)
      PROVE  CookieServed'
  BY <1>2 DEF InitWithHost, CookieServed, CookieMissedOnce
<1>3. CASE \/ \E c \in Cookies \cup {None} : SetCookie(c)
           \/ \E o \in Owners : SetShowHud(o) \/ Show(o) \/ Dealloc(o)
           \/ \E r \in Requests : Reply(r) \/ DidComplete(r) \/ Complete(r)
           \/ UNCHANGED netVars
  <2>1. UNCHANGED <<missed, requestSerializer, configured>>
    BY <1>3 DEF SetCookie, SetShowHud, Show, Dealloc, Reply, DidComplete, Complete,
           Completes, DealWithSuccess, DealWithEmpty, DealWithFailError, Downloaded,
           Orphaned, netVars, managerVars, appVars
  <2> QED
    BY <2>1 DEF CookieServed, CookieMissedOnce
<1> QED
  BY <1>1, <1>2, <1>3 DEF NetNext

(* However many serializers the application configures and changes back to,*)
(* with any views, requests, downloads and cookies between: one request at *)
(* most after a change goes without the stored cookie (AFNManager.m:39,    *)
(* 87).                                                                    *)
THEOREM CookieMissedOnceOnly == NetSpec => []CookieMissedOnce
<1>1. NetInit => CookieServed
  BY DEF NetInit, CookieServed, CookieMissedOnce
<1>2. CookieServed => CookieMissedOnce
  BY DEF CookieServed
<1> QED
  BY <1>1, <1>2, ServedKept, RequestsInvariance, PTL DEF NetSpec

=============================================================================
