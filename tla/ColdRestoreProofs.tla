------------------------- MODULE ColdRestoreProofs --------------------------
(***************************************************************************)
(* Proofs about ColdRestore for any number of shells and writers.          *)
(***************************************************************************)
EXTENDS ColdRestore, SequenceTheorems, TLAPS

-----------------------------------------------------------------------------
(* Type correctness *)

\* What Receive takes out of the inbox leaves the other messages in their order.
LEMMA ReceiveType ==
  ASSUME TypeOK, NEW m, Receive(m)
  PROVE  up /\ m \in Message /\ inbox' \in Seq(Message)
<1>0. inbox \in Seq(Message)
  BY DEF TypeOK
<1>1. PICK i \in 1 .. Len(inbox) :
        up /\ inbox[i] = m /\ inbox' = SubSeq(inbox, 1, i - 1) \o SubSeq(inbox, i + 1, Len(inbox))
  BY <1>0, LenProperties DEF Receive
<1>2. Len(inbox) \in Nat /\ \A k \in 1 .. Len(inbox) : inbox[k] \in Message
  BY <1>0, LenProperties, ElementOfSeq
<1>3. SubSeq(inbox, 1, i - 1) \in Seq(Message)
  BY <1>2, SubSeqProperties
<1>4. SubSeq(inbox, i + 1, Len(inbox)) \in Seq(Message)
  BY <1>2, SubSeqProperties
<1> QED BY <1>1, <1>2, <1>3, <1>4, ConcatProperties

LEMMA SendType ==
  ASSUME TypeOK, NEW m \in Message, Send(m)
  PROVE  inbox' \in Seq(Message)
<1>1. inbox \in Seq(Message)
  BY DEF TypeOK
<1>2. Append(inbox, m) \in Seq(Message)
  BY <1>1, AppendProperties
<1> QED BY <1>1, <1>2 DEF Send

LEMMA RequestType ==
  ASSUME TypeOK, NEW r \in Request
  PROVE  Append(wire, r) \in Seq(Request)
BY AppendProperties DEF TypeOK

LEMMA ArrivesType ==
  ASSUME TypeOK, NEW r, Arrives(r)
  PROVE  wire' \in Seq(Request)
BY HeadTailProperties DEF TypeOK, Arrives

\* The history manager's state.
WriterTypeOK ==
  /\ phase \in [Writers -> WriterState]
  /\ writer = None \/ (writer \in Writers /\ phase[writer].at = "open")
  /\ initializing \in BOOLEAN

LEMMA WriterTypes ==
  ASSUME TypeOK
  PROVE  /\ InitHistoryWriter /\ writer' = writer => WriterTypeOK'
         /\ CloseHistoryWriter => WriterTypeOK' /\ kept' \in Shells
         /\ UNCHANGED historyVars => WriterTypeOK'
         /\ Ended \subseteq Shells
<1> USE NoneAssumption
<1>0. phase \in [Writers -> WriterState] /\ shells \in Shells /\ over \subseteq Shells
      /\ (writer = None \/ (writer \in Writers /\ phase[writer].at = "open"))
      /\ \A w \in Writers : phase[w].of \in Shells
  BY DEF TypeOK, WriterState
<1>1. InitHistoryWriter /\ writer' = writer => WriterTypeOK'
  <2> SUFFICES ASSUME InitHistoryWriter, writer' = writer
               PROVE  WriterTypeOK'
    OBVIOUS
  <2>1. PICK w \in Writers : /\ phase[w].at = "free" /\ w # writer
                             /\ phase' = [phase EXCEPT ![w] = [at |-> "making", of |-> shells]]
                             /\ initializing' = TRUE
    BY DEF InitHistoryWriter
  <2>2. [at |-> "making", of |-> shells] \in WriterState
    BY <1>0 DEF WriterState
  <2> QED BY <1>0, <2>1, <2>2 DEF WriterTypeOK
<1>2. CloseHistoryWriter => WriterTypeOK' /\ kept' \in Shells
  <2> SUFFICES ASSUME CloseHistoryWriter
               PROVE  WriterTypeOK' /\ kept' \in Shells
    OBVIOUS
  <2>1. phase' \in [Writers -> WriterState]
    <3>1. CASE writer = None
      BY <1>0, <3>1 DEF CloseHistoryWriter
    <3>2. CASE writer # None
      <4>1. [phase[writer] EXCEPT !.at = "closing"] \in WriterState
        BY <1>0, <3>2 DEF WriterState
      <4> QED BY <1>0, <3>2, <4>1 DEF CloseHistoryWriter
    <3> QED BY <3>1, <3>2
  <2>2. 0 \in Shells
    BY MaxShellsAssumption DEF Shells
  <2> QED BY <2>1, <2>2 DEF CloseHistoryWriter, WriterTypeOK
<1>3. UNCHANGED historyVars => WriterTypeOK'
  BY <1>0 DEF historyVars, WriterTypeOK, TypeOK
<1>4. Ended \subseteq Shells
  BY <1>0 DEF Ended
<1> QED BY <1>1, <1>2, <1>3, <1>4

LEMMA TypeInit == Init => TypeOK
<1> SUFFICES ASSUME Init PROVE TypeOK
  OBVIOUS
<1>1. << >> \in Seq(Request) /\ << >> \in Seq(Message)
  BY EmptySeq
<1>2. phase \in [Writers -> WriterState]
  BY MaxShellsAssumption DEF Init, Free, WriterState, Shells
<1>3. call \in [pc : Stage, skip : BOOLEAN]
  BY DEF Init, Idle, Stage
<1>4. 0 \in Shells
  BY MaxShellsAssumption DEF Shells
<1> QED BY <1>1, <1>2, <1>3, <1>4 DEF Init, TypeOK


\* How a call goes on keeps the types.
LEMMA DecideType ==
  ASSUME TypeOK, NEW has \in BOOLEAN, Decide(has)
  PROVE  /\ call' \in [pc : Stage, skip : BOOLEAN] /\ wire' \in Seq(Request)
         /\ WriterTypeOK'
         /\ kept' \in Shells /\ lost' \in Shells /\ over' \subseteq Shells
         /\ unwanted' \subseteq Shells
<1>0. 0 \in Shells
  BY MaxShellsAssumption DEF Shells
<1>1. "create" \in Request
  BY DEF Request
<1>2. Append(wire, "create") \in Seq(Request)
  BY <1>1, RequestType
<1>3. \A pc \in Stage : [call EXCEPT !.pc = pc] \in [pc : Stage, skip : BOOLEAN]
  BY DEF TypeOK
<1>4. {"create", "meta", "rm"} \subseteq Stage
  BY DEF Stage
<1>5. CASE SendCreate /\ UNCHANGED <<historyVars, ghostVars>>
  BY <1>2, <1>3, <1>4, <1>5, WriterTypes DEF SendCreate, GoTo, TypeOK, ghostVars
<1>6. CASE GoTo("meta") /\ UNCHANGED <<wire, historyVars, ghostVars>>
  BY <1>3, <1>4, <1>6, WriterTypes DEF GoTo, TypeOK, ghostVars
<1>7. CASE GoTo("rm") /\ CloseHistoryWriter /\ lost' = 0 /\ over' = Ended
           /\ UNCHANGED <<wire, unwanted>>
  BY <1>0, <1>3, <1>4, <1>7, WriterTypes DEF GoTo, TypeOK
<1> QED BY <1>5, <1>6, <1>7 DEF Decide

LEMMA TypeStep == TypeOK /\ [Next]_vars => TypeOK'
<1> SUFFICES ASSUME TypeOK, [Next]_vars
             PROVE  TypeOK'
  OBVIOUS
<1>0. 0 \in Shells /\ Idle \in [pc : Stage, skip : BOOLEAN]
  BY MaxShellsAssumption DEF Shells, Idle, Stage
<1>a. \A pc \in Stage : [call EXCEPT !.pc = pc] \in [pc : Stage, skip : BOOLEAN]
  BY DEF TypeOK
<1>b. {"idle", "permit", "list", "meta", "scroll", "discard", "rm", "create"} \subseteq Stage
  BY DEF Stage
<1>c. \A r \in Request : Append(wire, r) \in Seq(Request)
  BY RequestType
<1>d. {"list", "create", "kill", "survey"} \subseteq Request
      /\ {"has", "hasnt", "created", "refused", "exit", "seen", "unseen"} \subseteq Message
  BY DEF Request, Message
<1>e. ASSUME WriterTypeOK', wire' \in Seq(Request), inbox' \in Seq(Message),
             up' \in BOOLEAN, hydrated' \in BOOLEAN, cached' \in BOOLEAN,
             restore' \in BOOLEAN, killing' \in BOOLEAN, hangup' \in BOOLEAN,
             session' \in {"none", "alive", "dead"},
             call' \in [pc : Stage, skip : BOOLEAN],
             meta' \in {"none", "open", "ended"}, scrollback' \in Shells,
             shell' \in {"none", "live", "dying"}, shells' \in Shells,
             busy' \in {"no", "spawning", "attaching"},
             kept' \in Shells, lost' \in Shells,
             over' \subseteq Shells, unwanted' \subseteq Shells
      PROVE  TypeOK'
  BY <1>e DEF TypeOK, WriterTypeOK
<1>f. /\ up \in BOOLEAN /\ hydrated \in BOOLEAN /\ cached \in BOOLEAN
      /\ restore \in BOOLEAN /\ killing \in BOOLEAN /\ hangup \in BOOLEAN
      /\ session \in {"none", "alive", "dead"}
      /\ call \in [pc : Stage, skip : BOOLEAN]
      /\ meta \in {"none", "open", "ended"} /\ scrollback \in Shells
      /\ shell \in {"none", "live", "dying"} /\ shells \in Shells
      /\ busy \in {"no", "spawning", "attaching"}
      /\ kept \in Shells /\ lost \in Shells
      /\ over \subseteq Shells /\ unwanted \subseteq Shells
      /\ wire \in Seq(Request) /\ inbox \in Seq(Message)
      /\ << >> \in Seq(Request) /\ << >> \in Seq(Message)
  BY EmptySeq DEF TypeOK
<1>g. UNCHANGED historyVars => WriterTypeOK'
  BY WriterTypes
<1>1. ASSUME NEW skip \in BOOLEAN, Call(skip) PROVE TypeOK'
  <2>1. [pc |-> "permit", skip |-> skip] \in [pc : Stage, skip : BOOLEAN]
    BY DEF Stage
  <2> QED BY <1>1, <1>e, <1>f, <1>g, <2>1 DEF Call, diskVars, daemonVars, ghostVars
<1>2. CASE Sticky
  BY <1>2, <1>0, <1>e, <1>f, <1>g DEF Sticky, diskVars, daemonVars, ghostVars
<1>3. CASE Permit
  <2>1. CASE hydrated
    BY <1>3, <2>1, <1>e, <1>f, DecideType DEF Permit, diskVars, daemonVars
  <2>2. CASE ~hydrated
    <3>1. call' = [call EXCEPT !.pc = "list"] /\ wire' = Append(wire, "list")
          /\ UNCHANGED <<historyVars, ghostVars>>
      BY <1>3, <2>2 DEF Permit, GoTo
    <3>2. call' \in [pc : Stage, skip : BOOLEAN] /\ wire' \in Seq(Request)
      BY <3>1, <1>a, <1>b, <1>c, <1>d
    <3>3. restore' \in BOOLEAN
      BY <1>3 DEF Permit
    <3>4. UNCHANGED <<up, hydrated, cached, session, killing, diskVars, daemonVars, inbox,
                      hangup>>
      BY <1>3 DEF Permit
    <3> QED BY <3>1, <3>2, <3>3, <3>4, <1>e, <1>f, <1>g DEF diskVars, daemonVars, ghostVars
  <2> QED BY <2>1, <2>2
<1>4. CASE ReadMeta
  BY <1>4, <1>a, <1>b, <1>c, <1>d, <1>e, <1>f, <1>g
  DEF ReadMeta, SendCreate, GoTo, diskVars, daemonVars, ghostVars
<1>5. CASE ReadScrollback
  <2>1. call' \in [pc : Stage, skip : BOOLEAN]
    BY <1>5, <1>0, <1>a, <1>b DEF ReadScrollback, GoTo
  <2>2. restore' \in BOOLEAN
    BY <1>5, <1>f DEF ReadScrollback
  <2>3. UNCHANGED <<up, hydrated, cached, session, killing, historyVars, diskVars,
                    daemonVars, wire, inbox, hangup, ghostVars>>
    BY <1>5 DEF ReadScrollback
  <2> QED BY <2>1, <2>2, <2>3, <1>e, <1>f, <1>g DEF diskVars, daemonVars, ghostVars
<1>6. CASE Remove
  BY <1>6, <1>0, <1>e, <1>f, <1>g
  DEF Remove, RemoveFile, managerVars, daemonVars, ghostVars
<1>7. CASE Removed
  BY <1>7, <1>a, <1>b, <1>c, <1>d, <1>e, <1>f, <1>g
  DEF Removed, SendCreate, GoTo, diskVars, daemonVars, ghostVars
<1>8. CASE Acknowledge
  <2>1. restore' \in BOOLEAN
    BY <1>8 DEF Acknowledge
  <2>2. UNCHANGED <<up, hydrated, cached, session, call, killing, historyVars, diskVars,
                    daemonVars, wire, inbox, hangup, ghostVars>>
    BY <1>8 DEF Acknowledge
  <2> QED BY <2>1, <2>2, <1>e, <1>f, <1>g DEF diskVars, daemonVars, ghostVars
<1>9. ASSUME NEW how, Kill(how) PROVE TypeOK'
  <2>1. WriterTypeOK' /\ kept' \in Shells /\ Ended \subseteq Shells
    BY <1>9, WriterTypes DEF Kill
  <2>2. wire' \in Seq(Request) /\ killing' \in BOOLEAN
    BY <1>9, <1>c, <1>d, <1>f DEF Kill
  <2>3. cached' \in BOOLEAN /\ session' \in {"none", "alive", "dead"}
    BY <1>9, <1>f DEF Kill
  <2> QED BY <1>9, <1>0, <1>e, <1>f, <2>1, <2>2, <2>3 DEF Kill, diskVars, daemonVars
<1>10. CASE KillSends
  BY <1>10, <1>c, <1>d, <1>e, <1>f, <1>g DEF KillSends, diskVars, daemonVars, ghostVars
<1>11. CASE Survey
  BY <1>11, <1>c, <1>d, <1>e, <1>f, <1>g
  DEF Survey, managerVars, diskVars, daemonVars, ghostVars
<1>12. ASSUME NEW m, Listed(m) PROVE TypeOK'
  <2>1. PICK has \in BOOLEAN : has = (m = "has")
    OBVIOUS
  <2>2. Decide(has)
    BY <1>12, <2>1, Zenon DEF Listed
  <2>3. inbox' \in Seq(Message)
    BY <1>12, ReceiveType DEF Listed
  <2>4. hydrated' = TRUE /\ cached' = has
    BY <1>12, <2>1, Zenon DEF Listed
  <2>5. UNCHANGED <<up, session, restore, killing, diskVars, daemonVars, hangup>>
    BY <1>12 DEF Listed
  <2>6. /\ call' \in [pc : Stage, skip : BOOLEAN] /\ wire' \in Seq(Request)
        /\ WriterTypeOK'
        /\ kept' \in Shells /\ lost' \in Shells /\ over' \subseteq Shells
        /\ unwanted' \subseteq Shells
    BY <2>2, DecideType
  <2> QED BY <1>e, <1>f, <2>3, <2>4, <2>5, <2>6 DEF diskVars, daemonVars
<1>13. ASSUME NEW m, Surveyed(m) PROVE TypeOK'
  BY <1>13, <1>e, <1>f, <1>g, ReceiveType DEF Surveyed, diskVars, daemonVars, ghostVars
<1>14. CASE Created
  BY <1>14, <1>0, <1>e, <1>f, WriterTypes, ReceiveType DEF Created, diskVars, daemonVars
<1>15. CASE Refused
  BY <1>15, <1>0, <1>e, <1>f, <1>g, ReceiveType DEF Refused, diskVars, daemonVars, ghostVars
<1>16. CASE Exit
  BY <1>16, <1>e, <1>f, WriterTypes, ReceiveType DEF Exit, diskVars, daemonVars
<1>17. CASE Forget
  BY <1>17, <1>e, <1>f, <1>g DEF Forget, diskVars, daemonVars, ghostVars
<1>18. CASE Disconnected
  <2>1. hydrated' = FALSE /\ cached' = FALSE
    BY <1>18 DEF Disconnected, Forgotten
  <2>2. /\ call' \in [pc : Stage, skip : BOOLEAN] /\ WriterTypeOK'
        /\ kept' \in Shells /\ lost' \in Shells /\ over' \subseteq Shells
        /\ unwanted' \subseteq Shells
    <3>1. CASE call.pc = "list" /\ call.skip
      BY <1>18, <3>1, <1>0, <1>a, <1>b, <1>f, WriterTypes DEF Disconnected, GoTo
    <3>2. CASE call.pc = "list" /\ ~call.skip
      BY <1>18, <3>2, <1>a, <1>b, <1>f, <1>g DEF Disconnected, GoTo, ghostVars
    <3>3. CASE call.pc = "create"
      BY <1>18, <3>3, <1>0, <1>f, <1>g DEF Disconnected, ghostVars
    <3>4. CASE call.pc \notin {"list", "create"}
      BY <1>18, <3>4, <1>f, <1>g DEF Disconnected, ghostVars
    <3> QED BY <3>1, <3>2, <3>3, <3>4
  <2> QED BY <1>18, <1>e, <1>f, <2>1, <2>2 DEF Disconnected, diskVars, daemonVars
<1>19. ASSUME NEW w \in Writers, Fill(w) PROVE TypeOK'
  <2>1. [phase[w] EXCEPT !.at = "filled"] \in WriterState /\ phase[w].of \in Shells
    BY DEF TypeOK, WriterState
  <2>2. WriterTypeOK'
    BY <1>19, <2>1 DEF Fill, TypeOK, WriterTypeOK
  <2> QED BY <1>19, <1>e, <1>f, <2>1, <2>2 DEF Fill, managerVars, daemonVars, ghostVars
<1>20. ASSUME NEW w \in Writers, Install(w) PROVE TypeOK'
  <2>1. /\ [phase[w] EXCEPT !.at = "open"] \in WriterState /\ Free \in WriterState
        /\ phase[w].of \in Shells /\ [phase[w] EXCEPT !.at = "open"].at = "open"
    BY <1>0 DEF TypeOK, WriterState, Free
  <2>2. WriterTypeOK'
    BY <1>20, <2>1 DEF Install, TypeOK, WriterTypeOK
  <2> QED BY <1>20, <1>e, <1>f, <2>1, <2>2 DEF Install, managerVars, daemonVars
<1>21. ASSUME NEW w \in Writers, MarkEnded(w) PROVE TypeOK'
  <2>1. Free \in WriterState
    BY <1>0 DEF WriterState, Free
  <2>2. WriterTypeOK'
    BY <1>21, <2>1 DEF MarkEnded, TypeOK, WriterTypeOK
  <2> QED BY <1>21, <1>e, <1>f, <2>2 DEF MarkEnded, managerVars, daemonVars, ghostVars
<1>22. CASE ClearedOutput
  <2>1. PICK w \in Writers :
          phase' = [phase EXCEPT ![writer].at = "closing",
                                 ![w] = [at |-> "making", of |-> phase[writer].of]]
    BY <1>22 DEF ClearedOutput
  <2>2. writer \in Writers
    BY <1>22 DEF ClearedOutput, TypeOK
  <2>3. [phase[writer] EXCEPT !.at = "closing"] \in WriterState
        /\ [at |-> "making", of |-> phase[writer].of] \in WriterState
    BY <2>2 DEF TypeOK, WriterState
  <2>4. phase' \in [Writers -> WriterState]
    BY <2>1, <2>2, <2>3 DEF TypeOK
  <2>5. WriterTypeOK'
    BY <1>22, <2>4 DEF ClearedOutput, WriterTypeOK
  <2> QED BY <1>22, <1>0, <1>e, <1>f, <2>5 DEF ClearedOutput, managerVars, diskVars, daemonVars
<1>23. CASE HandleList \/ HandleSurvey
  BY <1>23, <1>d, <1>e, <1>f, <1>g, ArrivesType, SendType
  DEF HandleList, HandleSurvey, managerVars, diskVars, daemonVars, ghostVars
<1>24. CASE HandleCreate
  BY <1>24, <1>e, <1>f, <1>g, ArrivesType DEF HandleCreate, managerVars, diskVars, ghostVars
<1>25. CASE HandleKill
  BY <1>25, <1>e, <1>f, <1>g, ArrivesType DEF HandleKill, managerVars, diskVars, ghostVars
<1>26. CASE Spawned
  <2>1. shells' \in Shells
    BY <1>26, <1>f, MaxShellsAssumption DEF Spawned, Shells
  <2> QED BY <1>26, <1>e, <1>f, <1>g, <2>1 DEF Spawned, managerVars, diskVars, ghostVars
<1>27. CASE SpawnFails
  BY <1>27, <1>d, <1>e, <1>f, <1>g, SendType DEF SpawnFails, managerVars, diskVars, ghostVars
<1>28. CASE Attached
  BY <1>28, <1>d, <1>e, <1>f, <1>g, SendType DEF Attached, managerVars, diskVars, ghostVars
<1>29. CASE ShellExits
  BY <1>29, <1>d, <1>e, <1>f, <1>g, SendType DEF ShellExits, managerVars, diskVars, ghostVars
<1>30. CASE DaemonCrash
  BY <1>30, <1>e, <1>f, <1>g DEF DaemonCrash, managerVars, diskVars
<1>31. CASE ManagerCrash
  <2>1. WriterTypeOK'
    BY <1>31, <1>0 DEF ManagerCrash, WriterTypeOK, WriterState, Free
  <2> QED BY <1>31, <1>0, <1>e, <1>f, <2>1 DEF ManagerCrash, diskVars, daemonVars
<1>32. CASE ManagerStarts
  BY <1>32, <1>e, <1>f, <1>g DEF ManagerStarts, managerVars, diskVars, daemonVars, ghostVars
<1>33. CASE UNCHANGED vars
  BY <1>33, <1>e, <1>f, <1>g DEF vars, managerVars, diskVars, daemonVars, ghostVars
<1> QED BY <1>1, <1>2, <1>3, <1>4, <1>5, <1>6, <1>7, <1>8, <1>9, <1>10, <1>11, <1>12, <1>13,
           <1>14, <1>15, <1>16, <1>17, <1>18, <1>19, <1>20, <1>21, <1>22, <1>23, <1>24,
           <1>25, <1>26, <1>27, <1>28, <1>29, <1>30, <1>31, <1>32, <1>33 DEF Next

\* The state has its type, whatever crashes when and whatever is assumed of the
\* surroundings: in particular historyWriters holds open writers only, which is what
\* closeHistoryWriter and the replacement of a writer must keep up.
THEOREM RestoreTypes == Spec => []TypeOK
<1>1. TypeOK /\ [Next]_vars => TypeOK'
  BY TypeStep
<1> QED BY <1>1, TypeInit, PTL DEF Spec

-----------------------------------------------------------------------------
(***************************************************************************)
(* That a cold restore is offered for a lost shell only, and that no other *)
(* shell is started behind its back: the properties of ColdRestore, proved *)
(* for any number of shells and writers, each under as little as its proof *)
(* uses of what is assumed of the surroundings.                            *)
(***************************************************************************)

\* A lost shell is not forgotten where the messages and the disk keep an order; the
\* endedAt of a closed history takes a shell that lives through its set-up as well.
Orderly == OneOrder /\ PromptDisk
Assumed == Orderly /\ QuietSetUp

-----------------------------------------------------------------------------
(* The invariant: what is under way between the manager and the daemon *)

Answer == {"has", "hasnt", "created", "refused"}
Asks == {"list", "create"}

\* A process that does not run has no state but what is on disk.
DownInv ==
  ~up => ~hydrated /\ ~cached /\ ~restore /\ call = Idle /\ inbox = << >>

DaemonInv ==
  /\ hangup => shell = "none" /\ busy = "no"
  /\ busy = "spawning" => shell = "none"

AtMostOne(s, S) == \A i, j \in 1 .. Len(s) : s[i] \in S /\ s[j] \in S => i = j
NoneOf(s, S) == \A i \in 1 .. Len(s) : s[i] \notin S

\* At most one request of the call, or its handling, or its answer, is under way.
SingleInv ==
  /\ AtMostOne(wire, Asks) /\ AtMostOne(inbox, Answer)
  /\ NoneOf(wire, Asks) \/ (busy = "no" /\ NoneOf(inbox, Answer))
  /\ busy = "no" \/ NoneOf(inbox, Answer)

\* It is what the call waits for.
AwaitInv ==
  up => /\ UnderWay("create") => call.pc = "create"
        /\ UnderWay("list") => call.pc = "list"
        /\ busy # "no" => call.pc = "create"
        /\ Coming("created") \/ Coming("refused") => call.pc = "create"
        /\ Coming("has") \/ Coming("hasnt") => call.pc = "list"

ChannelInv == DownInv /\ DaemonInv /\ SingleInv /\ AwaitInv

-----------------------------------------------------------------------------
(* The two channels *)

LEMMA Channels ==
  ASSUME TypeOK
  PROVE  /\ DOMAIN inbox = 1 .. Len(inbox) /\ Len(inbox) \in Nat
         /\ DOMAIN wire = 1 .. Len(wire) /\ Len(wire) \in Nat
         /\ \A i \in 1 .. Len(inbox) : inbox[i] \in Message
         /\ \A i \in 1 .. Len(wire) : wire[i] \in Request
BY LenProperties, ElementOfSeq DEF TypeOK

\* In one order, it is the first message that is received.
LEMMA ReceiveFirst ==
  ASSUME OneOrder, TypeOK, NEW m, Receive(m)
  PROVE  /\ up /\ m \in Message
         /\ Len(inbox') \in Nat /\ Len(inbox) = Len(inbox') + 1
         /\ DOMAIN inbox' = 1 .. Len(inbox')
         /\ inbox[1] = m
         /\ \A k \in 1 .. Len(inbox') : inbox'[k] = inbox[k + 1]
<1>1. PICK i \in 1 .. Len(inbox) :
        /\ up /\ inbox[i] = m
        /\ \A j \in 1 .. i - 1 : IsEvent(inbox[j]) # IsEvent(m) /\ ~OneOrder
        /\ inbox' = SubSeq(inbox, 1, i - 1) \o SubSeq(inbox, i + 1, Len(inbox))
  BY Channels DEF Receive
<1>2. i = 1
  <2>1. ~(1 \in 1 .. i - 1)
    BY <1>1
  <2> QED BY <2>1, Channels
<1>3. inbox \in Seq(Message) /\ Len(inbox) \in Nat /\ 1 <= Len(inbox)
      /\ \A k \in 1 .. Len(inbox) : inbox[k] \in Message
  BY <1>1, <1>2, Channels DEF TypeOK
<1> DEFINE left == SubSeq(inbox, 1, 0)
           right == SubSeq(inbox, 2, Len(inbox))
<1>4. left \in Seq(Message) /\ Len(left) = 0
  BY <1>3
<1>5. right \in Seq(Message) /\ Len(right) = Len(inbox) - 1
      /\ \A k \in 1 .. Len(inbox) - 1 : right[k] = inbox[k + 1]
  <2>1. \A k \in 2 .. Len(inbox) : inbox[k] \in Message
    BY <1>3
  <2>2. right \in Seq(Message)
    BY <1>3, <2>1, SubSeqProperties
  <2>3. Len(right) = Len(inbox) - 1
    <3>1. CASE Len(inbox) = 1
      <4>1. right = << >>
        BY <1>3, <3>1, SubSeqEmpty
      <4> QED BY <3>1, <4>1
    <3>2. CASE 2 <= Len(inbox)
      BY <1>3, <2>1, <3>2, SubSeqProperties
    <3>3. \A n \in Nat : 1 <= n => n = 1 \/ 2 <= n
      OBVIOUS
    <3>4. Len(inbox) \in Nat /\ 1 <= Len(inbox)
      BY <1>3, Zenon
    <3> QED BY <3>1, <3>2, <3>3, <3>4, Zenon
  <2>4. ASSUME NEW k \in 1 .. Len(inbox) - 1 PROVE right[k] = inbox[k + 1]
    BY <1>3
  <2> QED BY <2>2, <2>3, <2>4
<1>6. inbox' = left \o right
  BY <1>1, <1>2
<1> HIDE DEF left, right
<1>7. inbox' \in Seq(Message) /\ Len(inbox') = Len(inbox) - 1
      /\ \A k \in 1 .. Len(inbox) - 1 : inbox'[k] = right[k]
  BY <1>4, <1>5, <1>6, ConcatProperties
<1>8. DOMAIN inbox' = 1 .. Len(inbox')
  BY <1>7, LenProperties
<1> QED BY <1>1, <1>2, <1>3, <1>5, <1>7, <1>8

LEMMA SendLast ==
  ASSUME TypeOK, NEW m \in Message, Send(m)
  PROVE  /\ ~up => inbox' = inbox
         /\ up => /\ Len(inbox') = Len(inbox) + 1
                  /\ DOMAIN inbox' = 1 .. Len(inbox) + 1
                  /\ \A k \in 1 .. Len(inbox) : inbox'[k] = inbox[k]
                  /\ inbox'[Len(inbox) + 1] = m
<1>1. inbox \in Seq(Message)
  BY DEF TypeOK
<1> QED BY <1>1, AppendProperties, LenProperties DEF Send

LEMMA RequestLast ==
  ASSUME TypeOK, NEW r \in Request, wire' = Append(wire, r)
  PROVE  /\ Len(wire') = Len(wire) + 1
         /\ DOMAIN wire' = 1 .. Len(wire) + 1
         /\ \A k \in 1 .. Len(wire) : wire'[k] = wire[k]
         /\ wire'[Len(wire) + 1] = r
<1>1. wire \in Seq(Request)
  BY DEF TypeOK
<1> QED BY <1>1, AppendProperties, LenProperties

LEMMA ArrivesFirst ==
  ASSUME TypeOK, NEW r, Arrives(r)
  PROVE  /\ ~hangup
         /\ Len(wire') \in Nat /\ Len(wire) = Len(wire') + 1
         /\ DOMAIN wire' = 1 .. Len(wire')
         /\ wire[1] = r
         /\ \A k \in 1 .. Len(wire') : wire'[k] = wire[k + 1]
<1>1. wire \in Seq(Request) /\ wire # << >> /\ wire' = Tail(wire) /\ Head(wire) = r
  BY DEF TypeOK, Arrives
<1>2. wire' \in Seq(Request) /\ Len(wire') = Len(wire) - 1
      /\ \A k \in 1 .. Len(wire) - 1 : Tail(wire)[k] = wire[k + 1]
  BY <1>1, HeadTailProperties
<1>3. Head(wire) = wire[1]
  BY <1>1
<1> QED BY <1>1, <1>2, <1>3, LenProperties, Channels DEF Arrives

\* The same in terms of Coming and UnderWay.
LEMMA ReceiveComing ==
  ASSUME OneOrder, TypeOK, NEW m, Receive(m)
  PROVE  /\ up /\ Coming(m)
         /\ \A x : Coming(x)' => Coming(x)
         /\ \A x : x # m /\ Coming(x) => Coming(x)'
<1>0. /\ up
      /\ Len(inbox') \in Nat /\ Len(inbox) = Len(inbox') + 1
      /\ DOMAIN inbox' = 1 .. Len(inbox') /\ DOMAIN inbox = 1 .. Len(inbox)
      /\ inbox[1] = m
      /\ \A k \in 1 .. Len(inbox') : inbox'[k] = inbox[k + 1]
  <2>1. DOMAIN inbox = 1 .. Len(inbox)
    BY Channels
  <2> QED BY <2>1, ReceiveFirst
<1>1. Coming(m)
  <2>1. 1 \in DOMAIN inbox
    BY <1>0
  <2> QED BY <1>0, <2>1 DEF Coming
<1>2. ASSUME NEW x, Coming(x)' PROVE Coming(x)
  <2>1. PICK i \in 1 .. Len(inbox') : inbox'[i] = x
    BY <1>0, <1>2 DEF Coming
  <2>2. i + 1 \in DOMAIN inbox /\ inbox[i + 1] = x
    BY <1>0, <2>1
  <2> QED BY <2>2 DEF Coming
<1>3. ASSUME NEW x, x # m, Coming(x) PROVE Coming(x)'
  <2>1. PICK i \in 1 .. Len(inbox) : inbox[i] = x
    BY <1>0, <1>3 DEF Coming
  <2>2. i # 1
    BY <1>0, <1>3, <2>1
  <2>3. i - 1 \in DOMAIN inbox' /\ inbox'[i - 1] = inbox[i]
    BY <1>0, <2>1, <2>2
  <2> QED BY <2>1, <2>3 DEF Coming
<1> QED BY <1>0, <1>1, <1>2, <1>3

LEMMA SendComing ==
  ASSUME TypeOK, NEW m \in Message, Send(m)
  PROVE  /\ \A x : Coming(x) => Coming(x)'
         /\ \A x : Coming(x)' => Coming(x) \/ (up /\ x = m)
         /\ up => Coming(m)'
<1>1. CASE ~up
  BY <1>1, SendLast DEF Coming
<1>2. CASE up
  BY <1>2, SendLast, Channels DEF Coming
<1> QED BY <1>1, <1>2

LEMMA RequestUnderWay ==
  ASSUME TypeOK, NEW r \in Request, wire' = Append(wire, r)
  PROVE  \A x : UnderWay(x)' <=> UnderWay(x) \/ x = r
BY RequestLast, Channels DEF UnderWay

LEMMA ArrivesUnderWay ==
  ASSUME TypeOK, NEW r, Arrives(r)
  PROVE  /\ UnderWay(r)
         /\ \A x : UnderWay(x)' => UnderWay(x)
<1>0. /\ Len(wire') \in Nat /\ Len(wire) = Len(wire') + 1
      /\ DOMAIN wire' = 1 .. Len(wire') /\ DOMAIN wire = 1 .. Len(wire)
      /\ wire[1] = r
      /\ \A k \in 1 .. Len(wire') : wire'[k] = wire[k + 1]
  <2>1. DOMAIN wire = 1 .. Len(wire)
    BY Channels
  <2> QED BY <2>1, ArrivesFirst
<1>1. UnderWay(r)
  <2>1. 1 \in DOMAIN wire
    BY <1>0
  <2> QED BY <1>0, <2>1 DEF UnderWay
<1>2. ASSUME NEW x, UnderWay(x)' PROVE UnderWay(x)
  <2>1. PICK i \in 1 .. Len(wire') : wire'[i] = x
    BY <1>0, <1>2 DEF UnderWay
  <2>2. i + 1 \in DOMAIN wire /\ wire[i + 1] = x
    BY <1>0, <2>1
  <2> QED BY <2>2 DEF UnderWay
<1> QED BY <1>1, <1>2

LEMMA NothingUnderWay ==
  /\ inbox' = << >> => \A x : ~Coming(x)'
  /\ wire' = << >> => \A x : ~UnderWay(x)'
BY DEF Coming, UnderWay

-----------------------------------------------------------------------------
(* DownInv and DaemonInv *)

LEMMA DownStep ==
  ASSUME OneOrder, TypeOK, DownInv, [Next]_vars
  PROVE  DownInv'
<1> SUFFICES ASSUME ~up' PROVE (~hydrated /\ ~cached /\ ~restore /\ call = Idle /\ inbox = << >>)'
  BY DEF DownInv
<1>1. CASE ManagerCrash
  BY <1>1 DEF ManagerCrash
<1>2. CASE ~ManagerCrash
  <2>1. ~up
    BY <1>2, ReceiveFirst DEF Next, vars, Call, Sticky, Permit, ReadMeta, ReadScrollback, Remove,
      Removed, At, Acknowledge, Kill, KillSends, Survey, Listed, Surveyed, Created, Refused,
      Exit, Forget, Disconnected, Fill, Install, MarkEnded, ClearedOutput, HandleSurvey,
      HandleList, HandleCreate, HandleKill, Spawned, SpawnFails, Attached, ShellExits,
      DaemonCrash, ManagerStarts
  <2>2. CASE \/ HandleSurvey \/ HandleList \/ HandleCreate \/ HandleKill \/ Spawned
             \/ SpawnFails \/ Attached \/ ShellExits \/ DaemonCrash \/ UNCHANGED vars
    BY <2>1, <2>2 DEF DownInv, HandleSurvey, HandleList, HandleCreate, HandleKill, Spawned,
      SpawnFails, Attached, ShellExits, DaemonCrash, Send, vars, managerVars
  <2> QED BY <1>2, <2>1, <2>2, ReceiveFirst DEF Next, Call, Sticky, Permit, ReadMeta,
      ReadScrollback, Remove, Removed, At, Acknowledge, Kill, KillSends, Survey, Listed,
      Surveyed, Created, Refused, Exit, Forget, Disconnected, Fill, Install, MarkEnded,
      ClearedOutput, ManagerStarts
<1> QED BY <1>1, <1>2

LEMMA DaemonStep ==
  ASSUME OneOrder, TypeOK, DaemonInv, [Next]_vars
  PROVE  DaemonInv'
<1>1. CASE UNCHANGED <<shell, busy, hangup>>
  BY <1>1 DEF DaemonInv
<1>2. CASE Disconnected \/ ManagerCrash
  BY <1>2 DEF DaemonInv, Disconnected, ManagerCrash, daemonVars
<1>3. CASE HandleCreate
  BY <1>3 DEF DaemonInv, HandleCreate, Arrives
<1>4. CASE \/ HandleKill \/ Spawned \/ SpawnFails \/ Attached \/ ShellExits \/ DaemonCrash
  BY <1>4 DEF DaemonInv, HandleKill, Arrives, Spawned, SpawnFails, Attached, ShellExits,
    DaemonCrash
<1> QED BY <1>1, <1>2, <1>3, <1>4 DEF Next, vars, daemonVars, Call, Sticky, Permit, ReadMeta,
      ReadScrollback, Remove, Removed, Acknowledge, Kill, KillSends, Survey, Listed,
      Surveyed, Created, Refused, Exit, Forget, Fill, Install, MarkEnded, ClearedOutput,
      HandleSurvey, HandleList, ManagerStarts

-----------------------------------------------------------------------------
(* SingleInv and AwaitInv *)

LEMMA RequestSingle ==
  ASSUME TypeOK, NEW r \in Request, wire' = Append(wire, r)
  PROVE  /\ r \notin Asks /\ AtMostOne(wire, Asks) => AtMostOne(wire', Asks)
         /\ r \notin Asks /\ NoneOf(wire, Asks) => NoneOf(wire', Asks)
         /\ NoneOf(wire, Asks) => AtMostOne(wire', Asks)
BY RequestLast, Channels DEF AtMostOne, NoneOf

LEMMA ArrivesSingle ==
  ASSUME TypeOK, NEW r, Arrives(r), AtMostOne(wire, Asks)
  PROVE  /\ AtMostOne(wire', Asks)
         /\ NoneOf(wire, Asks) => NoneOf(wire', Asks)
         /\ r \in Asks => NoneOf(wire', Asks) /\ ~NoneOf(wire, Asks)
<1>1. /\ Len(wire') \in Nat /\ Len(wire) = Len(wire') + 1
      /\ wire[1] = r
      /\ \A k \in 1 .. Len(wire') : wire'[k] = wire[k + 1]
  BY ArrivesFirst
<1>2. \A k \in 1 .. Len(wire') : k + 1 \in 1 .. Len(wire) /\ k + 1 # 1
  BY <1>1
<1>3. 1 \in 1 .. Len(wire)
  BY <1>1
<1>4. AtMostOne(wire', Asks)
  <2> SUFFICES ASSUME NEW i \in 1 .. Len(wire'), NEW j \in 1 .. Len(wire'),
                      wire'[i] \in Asks, wire'[j] \in Asks
               PROVE  i = j
    BY DEF AtMostOne
  <2>1. i + 1 = j + 1
    BY <1>1, <1>2 DEF AtMostOne
  <2> QED BY <2>1, <1>1
<1>5. NoneOf(wire, Asks) => NoneOf(wire', Asks)
  BY <1>1, <1>2 DEF NoneOf
<1>6. r \in Asks => NoneOf(wire', Asks) /\ ~NoneOf(wire, Asks)
  BY <1>1, <1>2, <1>3 DEF NoneOf, AtMostOne
<1> QED BY <1>4, <1>5, <1>6

LEMMA SendSingle ==
  ASSUME TypeOK, NEW m \in Message, Send(m)
  PROVE  /\ m \notin Answer /\ AtMostOne(inbox, Answer) => AtMostOne(inbox', Answer)
         /\ m \notin Answer /\ NoneOf(inbox, Answer) => NoneOf(inbox', Answer)
         /\ NoneOf(inbox, Answer) => AtMostOne(inbox', Answer)
<1>1. CASE ~up
  BY <1>1, SendLast DEF AtMostOne, NoneOf
<1>2. CASE up
  BY <1>2, SendLast, Channels DEF AtMostOne, NoneOf
<1> QED BY <1>1, <1>2

LEMMA ReceiveSingle ==
  ASSUME OneOrder, TypeOK, NEW m, Receive(m), AtMostOne(inbox, Answer)
  PROVE  /\ AtMostOne(inbox', Answer)
         /\ NoneOf(inbox, Answer) => NoneOf(inbox', Answer)
         /\ m \in Answer => NoneOf(inbox', Answer) /\ ~NoneOf(inbox, Answer)
<1>1. /\ Len(inbox') \in Nat /\ Len(inbox) = Len(inbox') + 1
      /\ inbox[1] = m
      /\ \A k \in 1 .. Len(inbox') : inbox'[k] = inbox[k + 1]
  BY ReceiveFirst
<1>2. \A k \in 1 .. Len(inbox') : k + 1 \in 1 .. Len(inbox) /\ k + 1 # 1
  BY <1>1
<1>3. 1 \in 1 .. Len(inbox)
  BY <1>1
<1>4. AtMostOne(inbox', Answer)
  <2> SUFFICES ASSUME NEW i \in 1 .. Len(inbox'), NEW j \in 1 .. Len(inbox'),
                      inbox'[i] \in Answer, inbox'[j] \in Answer
               PROVE  i = j
    BY DEF AtMostOne
  <2>1. i + 1 = j + 1
    BY <1>1, <1>2 DEF AtMostOne
  <2> QED BY <2>1, <1>1
<1>5. NoneOf(inbox, Answer) => NoneOf(inbox', Answer)
  BY <1>1, <1>2 DEF NoneOf
<1>6. m \in Answer => NoneOf(inbox', Answer) /\ ~NoneOf(inbox, Answer)
  BY <1>1, <1>2, <1>3 DEF NoneOf, AtMostOne
<1> QED BY <1>4, <1>5, <1>6

\* What the call does not wait for is not under way.
LEMMA NotAwaited ==
  ASSUME TypeOK, AwaitInv, up
  PROVE  /\ call.pc \notin {"list", "create"} =>
              busy = "no" /\ NoneOf(wire, Asks) /\ NoneOf(inbox, Answer)
         /\ NoneOf(wire, Asks) <=> ~UnderWay("list") /\ ~UnderWay("create")
         /\ NoneOf(inbox, Answer) <=> \A m \in Answer : ~Coming(m)
<1>1. NoneOf(wire, Asks) <=> ~UnderWay("list") /\ ~UnderWay("create")
  BY Channels DEF NoneOf, UnderWay, Asks
<1>2. NoneOf(inbox, Answer) <=> \A m \in Answer : ~Coming(m)
  BY Channels DEF NoneOf, Coming
<1>3. \A m \in Answer : m \in {"has", "hasnt", "created", "refused"}
  BY DEF Answer
<1>4. call.pc \notin {"list", "create"} => \A m \in Answer : ~Coming(m)
  BY <1>3 DEF AwaitInv
<1>5. call.pc \notin {"list", "create"} =>
        busy = "no" /\ ~UnderWay("list") /\ ~UnderWay("create")
  BY DEF AwaitInv
<1> QED BY <1>1, <1>2, <1>4, <1>5

LEMMA EmptySingle ==
  \A S : AtMostOne(<< >>, S) /\ NoneOf(<< >>, S)
BY DEF AtMostOne, NoneOf

LEMMA SingleStep ==
  ASSUME OneOrder, TypeOK, DownInv, DaemonInv, SingleInv, AwaitInv, [Next]_vars
  PROVE  SingleInv'
<1>0. /\ AtMostOne(wire, Asks) /\ AtMostOne(inbox, Answer)
      /\ NoneOf(wire, Asks) \/ (busy = "no" /\ NoneOf(inbox, Answer))
      /\ busy = "no" \/ NoneOf(inbox, Answer)
  BY DEF SingleInv
<1>a. "list" \in Request /\ "create" \in Request /\ "kill" \in Request /\ "survey" \in Request
      /\ "list" \in Asks /\ "create" \in Asks /\ "kill" \notin Asks /\ "survey" \notin Asks
  BY DEF Request, Asks
<1>b. Answer \subseteq Message /\ "exit" \in Message /\ "seen" \in Message /\ "unseen" \in Message
      /\ "exit" \notin Answer /\ "seen" \notin Answer /\ "unseen" \notin Answer
      /\ {"has", "hasnt", "created", "refused"} \subseteq Answer
  BY DEF Answer, Message
<1>c. ASSUME UNCHANGED <<inbox, busy>>,
             \/ UNCHANGED wire
             \/ \E r \in Request : /\ wire' = Append(wire, r)
                                   /\ r \in Asks => /\ NoneOf(wire, Asks) /\ busy = "no"
                                                    /\ NoneOf(inbox, Answer)
      PROVE  SingleInv'
  <2>1. CASE UNCHANGED wire
    BY <1>0, <1>c, <2>1 DEF SingleInv
  <2>2. ASSUME NEW r \in Request, wire' = Append(wire, r),
               r \in Asks => NoneOf(wire, Asks) /\ busy = "no" /\ NoneOf(inbox, Answer)
        PROVE  SingleInv'
    BY <1>0, <1>c, <2>2, RequestSingle DEF SingleInv
  <2> QED BY <1>c, <2>1, <2>2
<1>1. CASE UNCHANGED <<wire, inbox, busy>>
  BY <1>0, <1>1 DEF SingleInv
<1>2. CASE Permit \/ ReadMeta \/ Removed
  <2>1. up /\ call.pc \notin {"list", "create"}
    BY <1>2 DEF Permit, ReadMeta, Removed, At
  <2>2. NoneOf(wire, Asks) /\ busy = "no" /\ NoneOf(inbox, Answer)
    BY <2>1, NotAwaited
  <2>3. UNCHANGED <<inbox, busy>>
    BY <1>2 DEF Permit, ReadMeta, Removed, daemonVars
  <2>4. \/ UNCHANGED wire
        \/ wire' = Append(wire, "create")
        \/ wire' = Append(wire, "list")
    BY <1>2 DEF Permit, Decide, SendCreate, ReadMeta, Removed
  <2> QED BY <1>a, <1>c, <2>2, <2>3, <2>4
<1>3. CASE (\E how \in {"plain", "delete", "workspace"} : Kill(how)) \/ KillSends \/ Survey
  <2>1. UNCHANGED <<inbox, busy>>
    BY <1>3 DEF Kill, KillSends, Survey, daemonVars
  <2>2. UNCHANGED wire \/ wire' = Append(wire, "kill") \/ wire' = Append(wire, "survey")
    BY <1>3 DEF Kill, KillSends, Survey
  <2> QED BY <1>a, <1>c, <2>1, <2>2
<1>4. ASSUME NEW m \in {"has", "hasnt"}, Listed(m) PROVE SingleInv'
  <2>1. Receive(m) /\ UNCHANGED busy
    BY <1>4 DEF Listed, daemonVars
  <2>2. NoneOf(inbox', Answer) /\ ~NoneOf(inbox, Answer) /\ AtMostOne(inbox', Answer)
    BY <1>0, <1>b, <2>1, ReceiveSingle
  <2>3. NoneOf(wire, Asks) /\ busy = "no"
    BY <1>0, <2>2
  <2>4. wire' = Append(wire, "create") \/ UNCHANGED wire
    BY <1>4 DEF Listed, Decide, SendCreate
  <2>5. AtMostOne(wire', Asks)
    BY <1>0, <1>a, <2>3, <2>4, RequestSingle
  <2> QED BY <2>1, <2>2, <2>3, <2>5 DEF SingleInv
<1>5. CASE \/ \E m \in {"seen", "unseen"} : Surveyed(m)
           \/ Created \/ Refused \/ Exit
  <2>1. UNCHANGED <<wire, busy>>
    BY <1>5 DEF Surveyed, Created, Refused, Exit, daemonVars
  <2>2. \E m : Receive(m)
    BY <1>5 DEF Surveyed, Created, Refused, Exit
  <2>3. AtMostOne(inbox', Answer) /\ (NoneOf(inbox, Answer) => NoneOf(inbox', Answer))
    BY <1>0, <2>2, ReceiveSingle
  <2> QED BY <1>0, <2>1, <2>3 DEF SingleInv
<1>6. CASE Disconnected
  BY <1>6, EmptySingle DEF Disconnected, SingleInv
<1>7. CASE HandleList
  <2>1. NoneOf(wire', Asks) /\ ~NoneOf(wire, Asks) /\ AtMostOne(wire', Asks)
    BY <1>0, <1>7, <1>a, ArrivesSingle DEF HandleList
  <2>2. busy' = "no" /\ NoneOf(inbox, Answer)
    BY <1>0, <1>7, <2>1 DEF HandleList, daemonVars
  <2>3. Send("has") \/ Send("hasnt")
    BY <1>7 DEF HandleList
  <2>4. AtMostOne(inbox', Answer)
    BY <1>b, <2>2, <2>3, SendSingle
  <2> QED BY <2>1, <2>2, <2>4 DEF SingleInv
<1>8. CASE HandleSurvey
  <2>1. AtMostOne(wire', Asks) /\ (NoneOf(wire, Asks) => NoneOf(wire', Asks))
    BY <1>0, <1>8, ArrivesSingle DEF HandleSurvey
  <2>2. Send("seen") \/ Send("unseen")
    BY <1>8 DEF HandleSurvey
  <2>3. AtMostOne(inbox', Answer) /\ (NoneOf(inbox, Answer) => NoneOf(inbox', Answer))
    BY <1>0, <1>b, <2>2, SendSingle
  <2>4. UNCHANGED busy
    BY <1>8 DEF HandleSurvey, daemonVars
  <2> QED BY <1>0, <2>1, <2>3, <2>4 DEF SingleInv
<1>9. CASE HandleCreate
  <2>1. NoneOf(wire', Asks) /\ ~NoneOf(wire, Asks) /\ AtMostOne(wire', Asks)
    BY <1>0, <1>9, <1>a, ArrivesSingle DEF HandleCreate
  <2> QED BY <1>0, <1>9, <2>1 DEF HandleCreate, SingleInv
<1>10. CASE HandleKill
  <2>1. AtMostOne(wire', Asks) /\ (NoneOf(wire, Asks) => NoneOf(wire', Asks))
    BY <1>0, <1>10, ArrivesSingle DEF HandleKill
  <2> QED BY <1>0, <1>10, <2>1 DEF HandleKill, SingleInv
<1>11. CASE Spawned
  BY <1>0, <1>11 DEF Spawned, SingleInv
<1>12. CASE SpawnFails \/ Attached
  <2>1. busy # "no" /\ busy' = "no" /\ UNCHANGED wire /\ (Send("refused") \/ Send("created"))
    BY <1>12 DEF SpawnFails, Attached
  <2>2. AtMostOne(inbox', Answer)
    BY <1>0, <1>b, <2>1, SendSingle
  <2> QED BY <1>0, <2>1, <2>2 DEF SingleInv
<1>13. CASE ShellExits
  <2>1. AtMostOne(inbox', Answer) /\ (NoneOf(inbox, Answer) => NoneOf(inbox', Answer))
    BY <1>0, <1>b, <1>13, SendSingle DEF ShellExits
  <2> QED BY <1>0, <1>13, <2>1 DEF ShellExits, SingleInv
<1>14. CASE DaemonCrash
  BY <1>0, <1>14, EmptySingle DEF DaemonCrash, SingleInv
<1>15. CASE ManagerCrash
  BY <1>0, <1>15, EmptySingle DEF ManagerCrash, daemonVars, SingleInv
<1> QED BY <1>1, <1>2, <1>3, <1>4, <1>5, <1>6, <1>7, <1>8, <1>9, <1>10, <1>11, <1>12, <1>13,
           <1>14, <1>15 DEF Next, vars, daemonVars, Call, Sticky, ReadScrollback, Remove,
           Acknowledge, Forget, Fill, Install, MarkEnded, ClearedOutput, ManagerStarts

LEMMA AwaitStep ==
  ASSUME OneOrder, TypeOK, DownInv, DaemonInv, SingleInv, AwaitInv, [Next]_vars
  PROVE  AwaitInv'
<1> SUFFICES ASSUME up'
             PROVE  /\ UnderWay("create")' => call'.pc = "create"
                    /\ UnderWay("list")' => call'.pc = "list"
                    /\ busy' # "no" => call'.pc = "create"
                    /\ Coming("created")' \/ Coming("refused")' => call'.pc = "create"
                    /\ Coming("has")' \/ Coming("hasnt")' => call'.pc = "list"
  BY DEF AwaitInv
<1>a. UNCHANGED wire => \A x : UnderWay(x)' <=> UnderWay(x)
  BY DEF UnderWay
<1>b. UNCHANGED inbox => \A x : Coming(x)' <=> Coming(x)
  BY DEF Coming
<1>c. up => /\ UnderWay("create") => call.pc = "create"
            /\ UnderWay("list") => call.pc = "list"
            /\ busy # "no" => call.pc = "create"
            /\ Coming("created") \/ Coming("refused") => call.pc = "create"
            /\ Coming("has") \/ Coming("hasnt") => call.pc = "list"
  BY DEF AwaitInv
<1>d. call \in [pc : Stage, skip : BOOLEAN]
  BY DEF TypeOK
<1>e. {"list", "create", "kill", "survey"} \subseteq Request
  BY DEF Request
<1>f. {"has", "hasnt", "created", "refused", "exit", "seen", "unseen"} \subseteq Message
  BY DEF Message
<1>1. CASE UNCHANGED <<up, wire, inbox, busy, call>>
  BY <1>1, <1>a, <1>b, <1>c
<1>2. CASE (\E skip \in BOOLEAN : Call(skip)) \/ Sticky \/ ReadScrollback
  <2>1. up /\ call.pc \notin {"list", "create"} /\ UNCHANGED <<wire, inbox, busy>>
    BY <1>2 DEF Call, Sticky, ReadScrollback, At, daemonVars
  <2> QED BY <2>1, <1>a, <1>b, <1>c
<1>3. CASE Permit \/ ReadMeta \/ Removed
  <2>1. up /\ call.pc \notin {"list", "create"} /\ UNCHANGED <<inbox, busy>>
    BY <1>3 DEF Permit, ReadMeta, Removed, At, daemonVars
  <2>2. \/ UNCHANGED wire
        \/ wire' = Append(wire, "create") /\ call'.pc = "create"
        \/ wire' = Append(wire, "list") /\ call'.pc = "list"
    BY <1>3, <1>d DEF Permit, Decide, SendCreate, GoTo, ReadMeta, Removed
  <2> QED BY <2>1, <2>2, <1>a, <1>b, <1>c, <1>e, RequestUnderWay
<1>4. CASE (\E how \in {"plain", "delete", "workspace"} : Kill(how)) \/ KillSends \/ Survey
  <2>1. up /\ UNCHANGED <<inbox, busy, call>>
    BY <1>4 DEF Kill, KillSends, Survey, daemonVars, managerVars
  <2>2. UNCHANGED wire \/ wire' = Append(wire, "kill") \/ wire' = Append(wire, "survey")
    BY <1>4 DEF Kill, KillSends, Survey
  <2> QED BY <2>1, <2>2, <1>a, <1>b, <1>c, <1>e, RequestUnderWay
<1>5. ASSUME NEW m \in {"has", "hasnt"}, Listed(m) PROVE AwaitInv'
  <2>1. Receive(m) /\ UNCHANGED busy
    BY <1>5 DEF Listed, daemonVars
  <2>2. up /\ Coming(m) /\ NoneOf(inbox', Answer) /\ ~NoneOf(inbox, Answer)
    BY <2>1, ReceiveComing, ReceiveSingle DEF SingleInv, Answer
  <2>3. call.pc = "list" /\ busy = "no" /\ NoneOf(wire, Asks)
    BY <1>c, <2>2 DEF SingleInv
  <2>4. ~UnderWay("list") /\ ~UnderWay("create")
    BY <2>2, <2>3, NotAwaited
  <2>5. \A x \in Answer : ~Coming(x)'
    <3>1. DOMAIN inbox' = 1 .. Len(inbox')
      BY <2>1, ReceiveFirst
    <3> QED BY <2>2, <3>1 DEF Coming, NoneOf
  <2>6. UNCHANGED wire \/ (wire' = Append(wire, "create") /\ call'.pc = "create")
    BY <1>5, <1>d DEF Listed, Decide, SendCreate, GoTo
  <2> QED BY <2>1, <2>3, <2>4, <2>5, <2>6, <1>a, <1>e, RequestUnderWay DEF AwaitInv, Answer
<1>6. CASE \E m \in {"seen", "unseen"} : Surveyed(m)
  <2>1. UNCHANGED <<wire, busy, call>> /\ \E m : Receive(m)
    BY <1>6 DEF Surveyed, daemonVars
  <2>2. up /\ \A x : Coming(x)' => Coming(x)
    BY <2>1, ReceiveComing
  <2> QED BY <2>1, <2>2, <1>a, <1>c
<1>7. CASE Exit
  <2>1. UNCHANGED <<wire, busy, call>> /\ \E m : Receive(m)
    BY <1>7 DEF Exit, daemonVars
  <2>2. up /\ \A x : Coming(x)' => Coming(x)
    BY <2>1, ReceiveComing
  <2> QED BY <2>1, <2>2, <1>a, <1>c
<1>8. CASE Created \/ Refused
  <2>1. PICK m \in {"created", "refused"} : Receive(m)
    BY <1>8 DEF Created, Refused
  <2>2. up /\ Coming(m) /\ NoneOf(inbox', Answer) /\ ~NoneOf(inbox, Answer)
    BY <2>1, ReceiveComing, ReceiveSingle DEF SingleInv, Answer
  <2>3. busy = "no" /\ NoneOf(wire, Asks) /\ UNCHANGED <<wire, busy>>
    BY <1>8, <2>2 DEF SingleInv, Created, Refused, daemonVars
  <2>4. ~UnderWay("list") /\ ~UnderWay("create")
    BY <2>2, <2>3, NotAwaited
  <2>5. \A x \in Answer : ~Coming(x)'
    <3>1. DOMAIN inbox' = 1 .. Len(inbox')
      BY <2>1, ReceiveFirst
    <3> QED BY <2>2, <3>1 DEF Coming, NoneOf
  <2> QED BY <2>3, <2>4, <2>5, <1>a DEF Answer
<1>9. CASE Disconnected
  <2>1. busy' = "no" /\ \A x : ~Coming(x)' /\ ~UnderWay(x)'
    BY <1>9, NothingUnderWay DEF Disconnected, DaemonInv, daemonVars
  <2> QED BY <2>1
<1>10. CASE HandleList
  <2>1. Arrives("list") /\ UNCHANGED <<up, call, busy>>
    BY <1>10 DEF HandleList, managerVars, daemonVars
  <2>2. UnderWay("list") /\ \A x : UnderWay(x)' => UnderWay(x)
    BY <2>1, ArrivesUnderWay
  <2>3. Send("has") \/ Send("hasnt")
    BY <1>10 DEF HandleList
  <2>4. \A x : Coming(x)' => Coming(x) \/ x = "has" \/ x = "hasnt"
    BY <2>3, <1>f, SendComing
  <2> QED BY <2>1, <2>2, <2>4, <1>c
<1>11. CASE HandleSurvey
  <2>1. Arrives("survey") /\ UNCHANGED <<up, call, busy>>
    BY <1>11 DEF HandleSurvey, managerVars, daemonVars
  <2>2. \A x : UnderWay(x)' => UnderWay(x)
    BY <2>1, ArrivesUnderWay
  <2>3. Send("seen") \/ Send("unseen")
    BY <1>11 DEF HandleSurvey
  <2>4. \A x : Coming(x)' => Coming(x) \/ x = "seen" \/ x = "unseen"
    BY <2>3, <1>f, SendComing
  <2> QED BY <2>1, <2>2, <2>4, <1>c
<1>12. CASE HandleCreate \/ HandleKill
  <2>1. UNCHANGED <<up, call, inbox>> /\ \A x : UnderWay(x)' => UnderWay(x)
    BY <1>12, ArrivesUnderWay DEF HandleCreate, HandleKill, managerVars
  <2>2. UNCHANGED busy \/ UnderWay("create")
    BY <1>12, ArrivesUnderWay DEF HandleCreate, HandleKill
  <2> QED BY <2>1, <2>2, <1>b, <1>c
<1>13. CASE Spawned
  BY <1>13, <1>a, <1>b, <1>c DEF Spawned, managerVars
<1>14. CASE SpawnFails \/ Attached
  <2>1. busy # "no" /\ busy' = "no" /\ UNCHANGED <<up, call, wire>>
        /\ (Send("refused") \/ Send("created"))
    BY <1>14 DEF SpawnFails, Attached, managerVars
  <2>2. \A x : Coming(x)' => Coming(x) \/ x = "refused" \/ x = "created"
    BY <2>1, <1>f, SendComing
  <2> QED BY <2>1, <2>2, <1>a, <1>c
<1>15. CASE ShellExits
  <2>1. UNCHANGED <<up, call, wire, busy>> /\ Send("exit")
    BY <1>15 DEF ShellExits, managerVars
  <2>2. \A x : Coming(x)' => Coming(x) \/ x = "exit"
    BY <2>1, <1>f, SendComing
  <2> QED BY <2>1, <2>2, <1>a, <1>c
<1>16. CASE DaemonCrash
  BY <1>16, <1>a, <1>b, <1>c DEF DaemonCrash, managerVars
<1>17. CASE ManagerCrash
  BY <1>17 DEF ManagerCrash
<1>18. CASE ManagerStarts
  <2>1. ~up /\ wire' = << >> /\ busy' = "no" /\ UNCHANGED inbox
    BY <1>18 DEF ManagerStarts, daemonVars
  <2>2. inbox' = << >>
    BY <2>1 DEF DownInv
  <2> QED BY <2>1, <2>2, NothingUnderWay
<1> QED BY <1>1, <1>2, <1>3, <1>4, <1>5, <1>6, <1>7, <1>8, <1>9, <1>10, <1>11, <1>12, <1>13,
           <1>14, <1>15, <1>16, <1>17, <1>18 DEF AwaitInv, Next, vars, managerVars, daemonVars,
           Remove, Acknowledge, Forget, Fill, Install, MarkEnded, ClearedOutput

LEMMA ChannelStep ==
  ASSUME OneOrder, TypeOK, ChannelInv, [Next]_vars
  PROVE  ChannelInv'
BY DownStep, DaemonStep, SingleStep, AwaitStep DEF ChannelInv

-----------------------------------------------------------------------------
(* The manager's view of the shell *)

\* No shell is live but, at most, one that was to be killed.
Unknown == shell = "live" => shells \in unwanted

CacheInv ==
  up /\ hydrated /\ ~cached /\ busy = "no" /\ ~Coming("created") => Unknown

\* News of no shell stays true until a createOrAttach is answered.
NewsInv ==
  \A i \in 1 .. Len(inbox) :
    /\ inbox[i] \in {"hasnt", "unseen", "exit"}
    /\ busy = "no"
    /\ \A j \in i + 1 .. Len(inbox) : inbox[j] # "created"
    => Unknown

CallInv ==
  /\ call.pc \in {"meta", "scroll", "discard", "rm"} => Unknown
  /\ restore => call.pc \in {"idle", "permit"} /\ Unknown

ViewInv == CacheInv /\ NewsInv /\ CallInv

LEMMA ShellStep ==
  ASSUME TypeOK, [Next]_vars, ~Spawned
  PROVE  /\ shell' = "live" => shell = "live"
         /\ shells' = shells
         /\ unwanted \subseteq unwanted'
         /\ Unknown => Unknown'
<1>1. CASE UNCHANGED <<shell, shells, unwanted>>
  BY <1>1 DEF Unknown
<1>2. CASE Permit
  BY <1>2 DEF Permit, Decide, Unknown, daemonVars, ghostVars
<1>3. CASE \E how \in {"plain", "delete", "workspace"} : Kill(how)
  BY <1>3 DEF Kill, Unknown, daemonVars
<1>4. CASE \E m \in {"has", "hasnt"} : Listed(m)
  BY <1>4 DEF Listed, Decide, Unknown, daemonVars, ghostVars
<1>5. CASE Disconnected
  BY <1>5 DEF Disconnected, Unknown, daemonVars, ghostVars
<1>6. CASE HandleCreate \/ HandleKill \/ ShellExits \/ DaemonCrash
  BY <1>6 DEF HandleCreate, HandleKill, ShellExits, DaemonCrash, Unknown, ghostVars
<1> QED BY <1>1, <1>2, <1>3, <1>4, <1>5, <1>6 DEF Next, vars, daemonVars, ghostVars, Call, Sticky,
      ReadMeta, ReadScrollback, Remove, Removed, Acknowledge, KillSends, Survey,
      Surveyed, Created, Refused, Exit, Forget, Fill, Install, MarkEnded, ClearedOutput,
      HandleSurvey, HandleList, SpawnFails, Attached, ManagerCrash, ManagerStarts

\* What the first message says is so.
LEMMA NewsFirst ==
  ASSUME OneOrder, TypeOK, NewsInv, NEW m, Receive(m), m \in {"hasnt", "unseen", "exit"},
         busy = "no", ~Coming("created")'
  PROVE  Unknown
<1>1. /\ Len(inbox') \in Nat /\ Len(inbox) = Len(inbox') + 1
      /\ DOMAIN inbox' = 1 .. Len(inbox')
      /\ inbox[1] = m
      /\ \A k \in 1 .. Len(inbox') : inbox'[k] = inbox[k + 1]
  BY ReceiveFirst
<1>2. ASSUME NEW j \in 1 + 1 .. Len(inbox) PROVE inbox[j] # "created"
  <2>1. j - 1 \in 1 .. Len(inbox') /\ inbox'[j - 1] = inbox[j]
    BY <1>1
  <2> QED BY <1>1, <2>1 DEF Coming
<1>3. 1 \in 1 .. Len(inbox)
  BY <1>1
<1> QED BY <1>1, <1>2, <1>3 DEF NewsInv

LEMMA NewsStep ==
  ASSUME OneOrder, TypeOK, ChannelInv, NewsInv, [Next]_vars
  PROVE  NewsInv'
<1>0. DownInv /\ DaemonInv
  BY DEF ChannelInv
<1>a. {"has", "hasnt", "created", "refused", "exit", "seen", "unseen"} \subseteq Message
  BY DEF Message
<1>b. Unknown' => NewsInv'
  BY DEF NewsInv
<1>1. CASE UNCHANGED <<inbox, busy>>
  <2>1. ~Spawned
    BY <1>1 DEF Spawned
  <2>2. Unknown => Unknown'
    BY <2>1, ShellStep
  <2> QED BY <1>1, <2>2 DEF NewsInv
<1>2. ASSUME NEW m, Receive(m), UNCHANGED busy, ~Spawned PROVE NewsInv'
  <2>1. /\ Len(inbox') \in Nat /\ Len(inbox) = Len(inbox') + 1
        /\ \A k \in 1 .. Len(inbox') : inbox'[k] = inbox[k + 1]
    BY <1>2, ReceiveFirst
  <2>2. Unknown => Unknown'
    BY <1>2, ShellStep
  <2>3. ASSUME NEW i \in 1 .. Len(inbox'), inbox'[i] \in {"hasnt", "unseen", "exit"},
               busy' = "no", \A j \in i + 1 .. Len(inbox') : inbox'[j] # "created"
        PROVE  Unknown
    <3>1. i + 1 \in 1 .. Len(inbox) /\ inbox[i + 1] \in {"hasnt", "unseen", "exit"}
      BY <2>1, <2>3
    <3>2. ASSUME NEW j \in i + 1 + 1 .. Len(inbox) PROVE inbox[j] # "created"
      <4>1. j - 1 \in i + 1 .. Len(inbox') /\ j - 1 \in 1 .. Len(inbox') /\ (j - 1) + 1 = j
        BY <2>1
      <4> QED BY <2>1, <2>3, <4>1
    <3> QED BY <1>2, <2>3, <3>1, <3>2 DEF NewsInv
  <2> QED BY <2>2, <2>3 DEF NewsInv
<1>3. CASE \/ \E m \in {"has", "hasnt"} : Listed(m)
           \/ \E m \in {"seen", "unseen"} : Surveyed(m)
           \/ Created \/ Refused \/ Exit
  <2>1. \E m : Receive(m)
    BY <1>3 DEF Listed, Surveyed, Created, Refused, Exit
  <2>2. UNCHANGED busy /\ UNCHANGED shells
    BY <1>3 DEF Listed, Surveyed, Created, Refused, Exit, daemonVars
  <2>3. ~Spawned
    BY <2>2 DEF Spawned, TypeOK, Shells
  <2> QED BY <1>2, <2>1, <2>2, <2>3
<1>4. CASE Disconnected \/ ManagerCrash
  BY <1>4 DEF Disconnected, ManagerCrash, NewsInv
<1>5. CASE HandleCreate \/ Spawned
  BY <1>5 DEF HandleCreate, Spawned, NewsInv
<1>6. CASE SpawnFails \/ ShellExits \/ DaemonCrash
  BY <1>0, <1>6, <1>b DEF SpawnFails, ShellExits, DaemonCrash, DaemonInv, Unknown
<1>7. CASE Attached
  <2>1. Send("created")
    BY <1>7 DEF Attached
  <2>2. CASE up
    BY <1>a, <2>1, <2>2, SendLast, Channels DEF NewsInv
  <2>3. CASE ~up
    BY <1>0, <1>a, <2>1, <2>3, SendLast DEF NewsInv, DownInv
  <2> QED BY <2>2, <2>3
<1>8. CASE HandleList \/ HandleSurvey
  <2>1. UNCHANGED <<shell, shells, busy, unwanted>>
    BY <1>8 DEF HandleList, HandleSurvey, daemonVars, ghostVars
  <2>2. CASE shell # "live"
    BY <1>b, <2>1, <2>2 DEF Unknown
  <2>3. CASE shell = "live"
    <3>1. PICK m \in {"has", "seen"} : Send(m)
      BY <1>8, <2>3 DEF HandleList, HandleSurvey
    <3>2. m \in Message
      BY <1>a
    <3>3. CASE ~up
      BY <2>1, <3>1, <3>2, <3>3, SendLast DEF NewsInv, Unknown
    <3>4. CASE up
      <4>1. /\ Len(inbox') = Len(inbox) + 1 /\ Len(inbox) \in Nat
            /\ \A k \in 1 .. Len(inbox) : inbox'[k] = inbox[k]
            /\ inbox'[Len(inbox) + 1] = m
        BY <3>1, <3>2, <3>4, SendLast, Channels
      <4>2. ASSUME NEW i \in 1 .. Len(inbox'), inbox'[i] \in {"hasnt", "unseen", "exit"},
                   busy' = "no", \A j \in i + 1 .. Len(inbox') : inbox'[j] # "created"
            PROVE  Unknown'
        <5>1. i \in 1 .. Len(inbox) /\ inbox[i] = inbox'[i]
          BY <4>1, <4>2
        <5>2. \A j \in i + 1 .. Len(inbox) : inbox[j] # "created"
          BY <4>1, <4>2, <5>1
        <5>3. Unknown
          BY <2>1, <4>2, <5>1, <5>2 DEF NewsInv
        <5> QED BY <2>1, <5>3 DEF Unknown
      <4> QED BY <4>2 DEF NewsInv
    <3> QED BY <3>3, <3>4
  <2> QED BY <2>2, <2>3
<1> QED BY <1>1, <1>3, <1>4, <1>5, <1>6, <1>7, <1>8 DEF Next, vars, daemonVars, Call, Sticky,
      Permit, ReadMeta, ReadScrollback, Remove, Removed, Acknowledge, Kill, KillSends, Survey,
      Forget, Fill, Install, MarkEnded, ClearedOutput, HandleKill, ManagerStarts

LEMMA CacheStep ==
  ASSUME OneOrder, TypeOK, ChannelInv, CacheInv, NewsInv, [Next]_vars
  PROVE  CacheInv'
<1>0. DownInv /\ DaemonInv /\ SingleInv /\ AwaitInv
  BY DEF ChannelInv
<1> SUFFICES ASSUME up', hydrated', ~cached', busy' = "no", ~Coming("created")'
             PROVE  Unknown'
  BY DEF CacheInv
<1>a. {"has", "hasnt", "created", "refused", "exit", "seen", "unseen"} \subseteq Message
  BY DEF Message
<1>1. CASE UNCHANGED <<up, hydrated, cached, busy, inbox>>
  <2>1. ~Spawned
    BY <1>1 DEF Spawned
  <2>2. Unknown
    BY <1>1 DEF CacheInv, Coming
  <2> QED BY <2>1, <2>2, ShellStep
<1>2. CASE \E how \in {"plain", "delete", "workspace"} : Kill(how)
  BY <1>2 DEF Kill, Unknown, daemonVars
<1>3. CASE \/ \E m \in {"has", "hasnt"} : Listed(m)
           \/ \E m \in {"seen", "unseen"} : Surveyed(m)
           \/ Exit
  <2>1. PICK m \in {"hasnt", "unseen", "exit"} : Receive(m)
    BY <1>3 DEF Listed, Surveyed, Exit
  <2>2. busy = "no" /\ UNCHANGED shells
    BY <1>3 DEF Listed, Surveyed, Exit, daemonVars
  <2>3. ~Spawned
    BY <2>2 DEF Spawned
  <2>4. Unknown
    BY <2>1, <2>2, NewsFirst
  <2> QED BY <2>3, <2>4, ShellStep
<1>4. CASE Created
  BY <1>4 DEF Created
<1>5. CASE Refused
  <2>1. Receive("refused") /\ UNCHANGED <<hydrated, cached, busy>>
    BY <1>5 DEF Refused, daemonVars
  <2>2. up /\ (Coming("created") => Coming("created")')
    BY <2>1, ReceiveComing
  <2>3. ~Spawned
    BY <1>5 DEF Refused, daemonVars, Spawned, TypeOK, Shells
  <2>4. Unknown
    BY <2>1, <2>2 DEF CacheInv
  <2> QED BY <2>3, <2>4, ShellStep
<1>6. CASE Disconnected \/ ManagerCrash
  BY <1>6 DEF Disconnected, Forgotten, ManagerCrash
<1>7. CASE HandleCreate \/ Spawned
  BY <1>7 DEF HandleCreate, Spawned
<1>8. CASE SpawnFails \/ ShellExits \/ DaemonCrash
  BY <1>0, <1>8 DEF SpawnFails, ShellExits, DaemonCrash, DaemonInv, Unknown
<1>9. CASE Attached
  <2>1. Send("created") /\ up
    BY <1>9 DEF Attached, managerVars
  <2> QED BY <2>1, <1>a, SendComing
<1>10. CASE HandleList \/ HandleSurvey
  <2>1. UNCHANGED <<up, hydrated, cached, busy>>
    BY <1>10 DEF HandleList, HandleSurvey, managerVars, daemonVars
  <2>2. \E m \in Message : Send(m)
    BY <1>10, <1>a DEF HandleList, HandleSurvey
  <2>3. Coming("created") => Coming("created")'
    BY <2>2, SendComing
  <2>4. Unknown
    BY <2>1, <2>3 DEF CacheInv
  <2>5. ~Spawned
    BY <1>10 DEF HandleList, HandleSurvey, daemonVars, Spawned
  <2> QED BY <2>4, <2>5, ShellStep
<1>11. CASE ManagerStarts
  BY <1>0, <1>11 DEF ManagerStarts, DownInv, managerVars
<1> QED BY <1>1, <1>2, <1>3, <1>4, <1>5, <1>6, <1>7, <1>8, <1>9, <1>10, <1>11
    DEF Next, vars, managerVars, daemonVars, Call, Sticky,
      Permit, ReadMeta, ReadScrollback, Remove, Removed, Acknowledge, KillSends, Survey,
      Forget, Fill, Install, MarkEnded, ClearedOutput, HandleKill

LEMMA CallStep ==
  ASSUME OneOrder, TypeOK, ChannelInv, ViewInv, [Next]_vars
  PROVE  CallInv'
<1>0. DownInv /\ DaemonInv /\ SingleInv /\ AwaitInv /\ CacheInv /\ NewsInv /\ CallInv
  BY DEF ChannelInv, ViewInv
<1>a. call \in [pc : Stage, skip : BOOLEAN]
  BY DEF TypeOK
<1>b. Idle.pc = "idle"
  BY DEF Idle
<1>c. ASSUME ~Spawned,
             call'.pc \in {"meta", "scroll", "discard", "rm"} =>
               call'.pc = call.pc \/ Unknown
               \/ (call.pc = "meta" /\ call'.pc = "scroll")
               \/ (call.pc = "scroll" /\ call'.pc = "discard"),
             restore' => /\ call'.pc \in {"idle", "permit"}
                         /\ restore \/ call.pc = "scroll"
      PROVE  CallInv'
  <2>1. Unknown => Unknown'
    BY <1>c, ShellStep
  <2> QED BY <1>0, <1>c, <2>1 DEF CallInv
<1>d. UNCHANGED shells => ~Spawned
  BY DEF Spawned, TypeOK, Shells
<1>1. CASE UNCHANGED <<call, restore, shells>>
  BY <1>0, <1>1, <1>c, <1>d DEF CallInv
<1>2. CASE (\E skip \in BOOLEAN : Call(skip)) \/ Sticky
  <2>1. call'.pc \in {"idle", "permit"} /\ UNCHANGED <<restore, shells>>
    BY <1>2, <1>b DEF Call, Sticky, daemonVars
  <2> QED BY <2>1, <1>c, <1>d
<1>3. CASE Permit
  <2>1. up /\ call.pc = "permit" /\ restore' = FALSE /\ UNCHANGED shells
    BY <1>3 DEF Permit, At, daemonVars
  <2>2. CASE call'.pc \in {"meta", "rm"}
    <3>1. hydrated /\ ~cached
      BY <1>3, <1>a, <2>2 DEF Permit, Decide, SendCreate, GoTo
    <3>2. busy = "no" /\ ~Coming("created")
      BY <1>0, <2>1 DEF AwaitInv
    <3>3. Unknown
      BY <1>0, <2>1, <3>1, <3>2 DEF CacheInv
    <3> QED BY <1>c, <1>d, <2>1, <3>3
  <2>3. CASE call'.pc \in {"list", "create"}
    BY <1>c, <1>d, <2>1, <2>3
  <2> QED BY <1>3, <1>a, <2>2, <2>3 DEF Permit, Decide, SendCreate, GoTo
<1>4. CASE ReadMeta \/ Removed
  <2>1. UNCHANGED <<restore, shells>>
    BY <1>4 DEF ReadMeta, Removed, daemonVars
  <2>2. call.pc \in {"meta", "discard", "rm"} /\ (call'.pc = "create" \/ (call.pc = "meta" /\ call'.pc = "scroll"))
    BY <1>4, <1>a DEF ReadMeta, Removed, At, SendCreate, GoTo
  <2>3. ~restore
    BY <1>0, <2>2 DEF CallInv
  <2> QED BY <1>c, <1>d, <2>1, <2>2, <2>3
<1>5. CASE ReadScrollback
  <2>1. call.pc = "scroll" /\ UNCHANGED shells
    BY <1>5 DEF ReadScrollback, At, daemonVars
  <2>2. \/ call'.pc = "discard" /\ UNCHANGED restore
        \/ call'.pc = "idle" /\ restore' = TRUE
    BY <1>5, <1>a, <1>b DEF ReadScrollback, GoTo
  <2>3. ~restore
    BY <1>0, <2>1 DEF CallInv
  <2> QED BY <1>c, <1>d, <2>1, <2>2, <2>3
<1>6. CASE Acknowledge
  BY <1>6, <1>c, <1>d DEF Acknowledge, daemonVars
<1>7. ASSUME NEW m \in {"has", "hasnt"}, Listed(m) PROVE CallInv'
  <2>1. Receive(m) /\ UNCHANGED <<restore, shells, busy>>
    BY <1>7 DEF Listed, daemonVars
  <2>2. Coming(m) /\ up
    BY <2>1, ReceiveComing
  <2>3. call.pc = "list" /\ ~restore
    BY <1>0, <2>2 DEF AwaitInv, CallInv
  <2>4. CASE m = "has"
    <3>1. call'.pc = "create"
      BY <1>7, <1>a, <2>4 DEF Listed, Decide, SendCreate, GoTo
    <3> QED BY <1>c, <1>d, <2>1, <2>3, <3>1
  <2>5. CASE m = "hasnt"
    <3>1. busy = "no" /\ NoneOf(inbox', Answer)
      <4>1. NoneOf(inbox', Answer) /\ ~NoneOf(inbox, Answer)
        BY <1>0, <2>1, ReceiveSingle DEF SingleInv, Answer
      <4> QED BY <1>0, <4>1 DEF SingleInv
    <3>2. DOMAIN inbox' = 1 .. Len(inbox')
      BY <2>1, ReceiveFirst
    <3>3. ~Coming("created")'
      BY <3>1, <3>2 DEF Coming, NoneOf, Answer
    <3>4. Unknown
      BY <1>0, <2>1, <2>5, <3>1, <3>3, NewsFirst
    <3> QED BY <1>c, <1>d, <2>1, <2>3, <3>4
  <2> QED BY <2>4, <2>5
<1>8. CASE Created \/ Refused
  <2>1. call' = Idle /\ UNCHANGED <<restore, shells>>
    BY <1>8 DEF Created, Refused, daemonVars
  <2> QED BY <1>b, <1>c, <1>d, <2>1
<1>9. CASE Disconnected
  <2>1. shell = "none" /\ UNCHANGED <<restore, shells>>
    BY <1>0, <1>9 DEF DaemonInv, Disconnected, daemonVars
  <2>2. Unknown
    BY <2>1 DEF Unknown
  <2>3. UNCHANGED call \/ call.pc \in {"list", "create"}
    BY <1>9 DEF Disconnected
  <2>4. restore' => call'.pc \in {"idle", "permit"}
    BY <1>0, <2>1, <2>3 DEF CallInv
  <2> QED BY <1>c, <1>d, <2>1, <2>2, <2>4
<1>10. CASE Spawned
  <2>1. call.pc \in {"create", "idle"} /\ ~restore
    <3>1. CASE up
      BY <1>0, <1>10, <3>1 DEF Spawned, AwaitInv, CallInv
    <3>2. CASE ~up
      BY <1>0, <1>b, <3>2 DEF DownInv
    <3> QED BY <3>1, <3>2
  <2> QED BY <1>10, <2>1 DEF Spawned, managerVars, CallInv
<1>11. CASE ManagerCrash
  BY <1>11, <1>b, <1>c, <1>d DEF ManagerCrash, daemonVars
<1> QED BY <1>1, <1>2, <1>3, <1>4, <1>5, <1>6, <1>7, <1>8, <1>9, <1>10, <1>11
    DEF Next, vars, managerVars, daemonVars, Remove, Kill, KillSends, Survey, Surveyed, Exit,
      Forget, Fill, Install, MarkEnded, ClearedOutput, HandleSurvey, HandleList, HandleCreate,
      HandleKill, SpawnFails, Attached, ShellExits, DaemonCrash, ManagerStarts

LEMMA ViewStep ==
  ASSUME OneOrder, TypeOK, ChannelInv, ViewInv, [Next]_vars
  PROVE  ViewInv'
BY CacheStep, NewsStep, CallStep DEF ViewInv

-----------------------------------------------------------------------------
(* The writers *)

WriterInv ==
  /\ \A w \in Writers : phase[w].at = "open" => w = writer
  /\ \A w \in Writers : phase[w].at # "free" => phase[w].of \in 1 .. shells
  /\ 0 \notin over
  /\ shells = 0 => shell # "live" /\ busy # "attaching" /\ ~Coming("created")

\* No writer is set up while, or before, the shell's exit event is on its way.
ExitsFirst == \A i, j \in 1 .. Len(inbox) : inbox[i] = "created" /\ inbox[j] = "exit" => j < i
ExitInv == (Coming("exit") => ~Initialising) /\ ExitsFirst

\* The steps that close the history: kill, the exit event, and the cleanup of a call
\* that skips the restore.
CloseStep ==
  /\ CloseHistoryWriter
  /\ Quiet \/ Coming("exit")
  /\ over' = Ended
  /\ UNCHANGED <<diskVars, shell, shells>>

\* The others leave the writers and the files alone but for these.
HistoryStep ==
  \/ UNCHANGED <<historyVars, diskVars, kept, over>>
  \/ CloseStep
  \/ Created
  \/ \E w \in Writers : Fill(w) \/ Install(w) \/ MarkEnded(w)
  \/ ClearedOutput
  \/ Remove
  \/ ManagerCrash

LEMMA DecideHistory ==
  ASSUME NEW has, Decide(has), UNCHANGED <<diskVars, shell, shells>>
  PROVE  UNCHANGED <<historyVars, diskVars, kept, over>> \/ CloseStep
<1>1. CASE UNCHANGED <<historyVars, ghostVars>>
  BY <1>1 DEF ghostVars
<1>2. CASE Quiet /\ CloseHistoryWriter /\ over' = Ended
  BY <1>2 DEF CloseStep
<1> QED BY <1>1, <1>2 DEF Decide

LEMMA HistorySteps ==
  ASSUME OneOrder, TypeOK, [Next]_vars
  PROVE  HistoryStep
<1>1. CASE UNCHANGED <<historyVars, diskVars, kept, over>>
  BY <1>1 DEF HistoryStep
<1>2. CASE Permit
  <2>1. CASE hydrated
    BY <1>2, <2>1, DecideHistory DEF Permit, HistoryStep, daemonVars
  <2>2. CASE ~hydrated
    BY <1>1, <1>2, <2>2 DEF Permit, ghostVars
  <2> QED BY <2>1, <2>2
<1>3. CASE \E how \in {"plain", "delete", "workspace"} : Kill(how)
  BY <1>3 DEF Kill, HistoryStep, CloseStep, daemonVars
<1>4. CASE \E m \in {"has", "hasnt"} : Listed(m)
  <2>1. PICK m \in {"has", "hasnt"} : Listed(m)
    BY <1>4
  <2>2. \E has : Decide(has)
    BY <2>1 DEF Listed
  <2>3. UNCHANGED <<diskVars, shell, shells>>
    BY <2>1 DEF Listed, daemonVars
  <2> QED BY <2>2, <2>3, DecideHistory DEF HistoryStep
<1>5. CASE Exit
  <2>1. Coming("exit")
    BY <1>5, ReceiveComing DEF Exit
  <2> QED BY <1>5, <2>1 DEF Exit, HistoryStep, CloseStep, daemonVars
<1>6. CASE Disconnected
  <2>1. CASE call.pc = "list" /\ call.skip
    BY <1>6, <2>1 DEF Disconnected, HistoryStep, CloseStep, daemonVars
  <2>2. CASE ~(call.pc = "list" /\ call.skip)
    BY <1>1, <1>6, <2>2 DEF Disconnected, ghostVars
  <2> QED BY <2>1, <2>2
<1>7. CASE \/ Created \/ ClearedOutput \/ Remove \/ ManagerCrash
           \/ \E w \in Writers : Fill(w) \/ Install(w) \/ MarkEnded(w)
  BY <1>7 DEF HistoryStep
<1> QED BY <1>1, <1>2, <1>3, <1>4, <1>5, <1>6, <1>7
    DEF Next, vars, ghostVars, Call, Sticky, ReadMeta, ReadScrollback, Removed, Acknowledge,
      KillSends, Survey, Surveyed, Refused, Forget, HandleSurvey, HandleList, HandleCreate,
      HandleKill, Spawned, SpawnFails, Attached, ShellExits, DaemonCrash, ManagerStarts

\* What the operations of the HistoryManager do, writer by writer.
LEMMA CloseWriters ==
  ASSUME TypeOK, WriterInv, CloseHistoryWriter
  PROVE  /\ writer' = None
         /\ \A w \in Writers : /\ phase'[w].of = phase[w].of
                               /\ phase'[w].at = IF phase[w].at = "open" THEN "closing"
                                                 ELSE phase[w].at
<1>1. phase \in [Writers -> WriterState] /\ writer' = None
  BY DEF TypeOK, CloseHistoryWriter
<1>2. CASE writer = None
  <2>1. \A w \in Writers : phase[w].at # "open"
    BY <1>2, NoneAssumption DEF WriterInv
  <2> QED BY <1>1, <1>2, <2>1 DEF CloseHistoryWriter
<1>3. CASE writer # None
  <2>1. writer \in Writers /\ phase[writer].at = "open"
    BY <1>3 DEF TypeOK
  <2>2. \A w \in Writers : phase[w].at = "open" => w = writer
    BY DEF WriterInv
  <2>3. phase' = [phase EXCEPT ![writer].at = "closing"]
    BY <1>3 DEF CloseHistoryWriter
  <2>4. \A w \in Writers : phase[w] \in WriterState
    BY <1>1
  <2> QED BY <1>1, <2>1, <2>2, <2>3, <2>4 DEF WriterState
<1> QED BY <1>2, <1>3

LEMMA InitWriters ==
  ASSUME TypeOK, InitHistoryWriter
  PROVE  \E v \in Writers :
           /\ phase[v].at = "free"
           /\ phase'[v].at = "making" /\ phase'[v].of = shells
           /\ \A w \in Writers \ {v} : phase'[w] = phase[w]
BY DEF TypeOK, InitHistoryWriter

LEMMA ClearedWriters ==
  ASSUME TypeOK, WriterInv, ClearedOutput
  PROVE  /\ writer \in Writers /\ phase[writer].at = "open" /\ writer' = None
         /\ \E v \in Writers \ {writer} :
              /\ phase[v].at = "free"
              /\ phase'[v].at = "making" /\ phase'[v].of = phase[writer].of
              /\ phase'[writer].at = "closing" /\ phase'[writer].of = phase[writer].of
              /\ \A w \in Writers \ {v, writer} : phase'[w] = phase[w]
<1>1. phase \in [Writers -> WriterState] /\ writer \in Writers /\ phase[writer].at = "open"
  BY DEF TypeOK, ClearedOutput
<1>2. PICK v \in Writers :
        /\ phase[v].at = "free"
        /\ phase' = [phase EXCEPT ![writer].at = "closing",
                                  ![v] = [at |-> "making", of |-> phase[writer].of]]
  BY DEF ClearedOutput
<1>3. v # writer
  BY <1>1, <1>2
<1>4. phase[writer] \in WriterState
  BY <1>1
<1>5. phase'[writer].at = "closing" /\ phase'[writer].of = phase[writer].of
  BY <1>1, <1>2, <1>3, <1>4 DEF WriterState
<1> QED BY <1>1, <1>2, <1>3, <1>5 DEF ClearedOutput

LEMMA InstallWriters ==
  ASSUME TypeOK, NEW w \in Writers, Install(w)
  PROVE  /\ writer' = w /\ w # writer
         /\ phase'[w].at = "open" /\ phase'[w].of = phase[w].of
         /\ \A v \in Writers \ {w} : phase'[v] = IF v = writer THEN Free ELSE phase[v]
<1>1. phase[w] \in WriterState
  BY DEF TypeOK
<1>2. w # writer
  BY NoneAssumption DEF TypeOK, Install
<1>3. [phase[w] EXCEPT !.at = "open"].at = "open" /\ [phase[w] EXCEPT !.at = "open"].of = phase[w].of
  BY <1>1 DEF WriterState
<1> QED BY <1>2, <1>3 DEF Install

LEMMA FillWriters ==
  ASSUME TypeOK, NEW w \in Writers, Fill(w) \/ MarkEnded(w)
  PROVE  /\ \A v \in Writers \ {w} : phase'[v] = phase[v]
         /\ Fill(w) => phase'[w].at = "filled" /\ phase'[w].of = phase[w].of
         /\ MarkEnded(w) => phase'[w] = Free
<1>1. phase \in [Writers -> WriterState]
  BY DEF TypeOK
<1> QED BY <1>1 DEF Fill, MarkEnded, WriterState

LEMMA FirstShell ==
  ASSUME OneOrder, TypeOK, WriterInv, [Next]_vars, shells' = 0
  PROVE  shell' # "live" /\ busy' # "attaching" /\ ~Coming("created")'
<1>a. {"has", "hasnt", "created", "refused", "exit", "seen", "unseen"} \subseteq Message
  BY DEF Message
<1>b. ~Spawned
  BY DEF Spawned, TypeOK, Shells
<1>0. shells = 0 /\ shell # "live" /\ busy # "attaching" /\ ~Coming("created")
      /\ shell' # "live"
  BY <1>b, ShellStep DEF WriterInv
<1>1. CASE UNCHANGED <<busy, inbox>>
  BY <1>0, <1>1 DEF Coming
<1>2. CASE \/ \E m \in {"has", "hasnt"} : Listed(m)
           \/ \E m \in {"seen", "unseen"} : Surveyed(m)
           \/ Created \/ Refused \/ Exit
  <2>1. \E m : Receive(m)
    BY <1>2 DEF Listed, Surveyed, Created, Refused, Exit
  <2>2. UNCHANGED busy
    BY <1>2 DEF Listed, Surveyed, Created, Refused, Exit, daemonVars
  <2>3. ~Coming("created")'
    BY <1>0, <2>1, ReceiveComing
  <2> QED BY <1>0, <2>2, <2>3
<1>3. CASE Disconnected \/ ManagerCrash
  BY <1>0, <1>3, NothingUnderWay DEF Disconnected, ManagerCrash, daemonVars
<1>4. CASE HandleCreate \/ DaemonCrash
  BY <1>0, <1>4 DEF HandleCreate, DaemonCrash, Coming
<1>5. CASE HandleList \/ HandleSurvey \/ SpawnFails \/ ShellExits
  <2>1. busy' = busy \/ busy' = "no"
    BY <1>5 DEF HandleList, HandleSurvey, SpawnFails, ShellExits, daemonVars
  <2>2. \E m \in Message \ {"created"} : Send(m)
    BY <1>5, <1>a DEF HandleList, HandleSurvey, SpawnFails, ShellExits
  <2>3. ~Coming("created")'
    BY <1>0, <2>2, SendComing
  <2> QED BY <1>0, <2>1, <2>3
<1>6. ~Attached
  BY <1>0 DEF Attached
<1> QED BY <1>b, <1>1, <1>2, <1>3, <1>4, <1>5, <1>6
    DEF Next, vars, daemonVars, Call, Sticky, Permit, ReadMeta, ReadScrollback, Remove, Removed,
      Acknowledge, Kill, KillSends, Survey, Forget, Fill, Install, MarkEnded, ClearedOutput,
      HandleKill, ManagerStarts

LEMMA WriterStep ==
  ASSUME OneOrder, TypeOK, WriterInv, [Next]_vars
  PROVE  WriterInv'
<1>0. /\ \A w \in Writers : phase[w].at = "open" => w = writer
      /\ \A w \in Writers : phase[w].at # "free" => phase[w].of \in 1 .. shells
      /\ 0 \notin over
  BY DEF WriterInv
<1>a. shells \in Nat /\ shells' \in Nat /\ (shells' = shells \/ shells' = shells + 1)
  <2>1. CASE Spawned
    BY <2>1 DEF Spawned, TypeOK, Shells
  <2>2. CASE ~Spawned
    BY <2>2, ShellStep DEF TypeOK, Shells
  <2> QED BY <2>1, <2>2
<1>b. \A n : n \in 1 .. shells => n \in 1 .. shells'
  BY <1>a
<1>c. Free.at = "free"
  BY DEF Free
<1>d. \A w \in Writers : phase[w].at = "open" <=> w = writer
  BY <1>0, NoneAssumption DEF TypeOK
<1>1. ASSUME \A w \in Writers : phase'[w].at = "open" => w = writer',
             \A w \in Writers : phase'[w].at # "free" =>
               phase'[w].of \in 1 .. shells \/ phase'[w].of \in 1 .. shells',
             0 \notin over'
      PROVE  WriterInv'
  <2>1. shells' = 0 => shell' # "live" /\ busy' # "attaching" /\ ~Coming("created")'
    BY FirstShell
  <2> QED BY <1>b, <1>1, <2>1 DEF WriterInv
<1>2. CASE UNCHANGED <<historyVars, diskVars, kept, over>>
  BY <1>0, <1>1, <1>2 DEF historyVars
<1>3. CASE CloseStep
  <2>1. /\ \A w \in Writers : /\ phase'[w].of = phase[w].of
                              /\ phase'[w].at = IF phase[w].at = "open" THEN "closing"
                                                ELSE phase[w].at
    BY <1>3, CloseWriters DEF CloseStep
  <2>2. over' = over \cup {phase[w].of : w \in {w \in Writers : w = writer \/ phase[w].at \in {"making", "filled"}}}
    BY <1>3 DEF CloseStep, Ended
  <2>3. 0 \notin over'
    BY <1>0, <1>a, <1>d, <2>2
  <2> QED BY <1>0, <1>1, <2>1, <2>3
<1>4. CASE Created
  <2>1. InitHistoryWriter /\ writer' = writer /\ shells' = shells /\ over' \subseteq over
    BY <1>4 DEF Created, daemonVars
  <2>2. shells # 0
    <3>1. Coming("created")
      BY <1>4, ReceiveComing DEF Created
    <3> QED BY <3>1 DEF WriterInv
  <2>3. shells \in 1 .. shells
    BY <1>a, <2>2
  <2>4. PICK v \in Writers :
           /\ phase[v].at = "free"
           /\ phase'[v].at = "making" /\ phase'[v].of = shells
           /\ \A w \in Writers \ {v} : phase'[w] = phase[w]
    BY <2>1, InitWriters
  <2> QED BY <1>0, <1>1, <2>1, <2>3, <2>4
<1>5. ASSUME NEW w \in Writers, Fill(w) PROVE WriterInv'
  BY <1>0, <1>1, <1>5, FillWriters DEF Fill, ghostVars
<1>6. ASSUME NEW w \in Writers, Install(w) PROVE WriterInv'
  <2>1. UNCHANGED over /\ phase[w].at = "filled"
    BY <1>6 DEF Install
  <2> QED BY <1>0, <1>1, <1>c, <1>6, <2>1, InstallWriters
<1>7. ASSUME NEW w \in Writers, MarkEnded(w) PROVE WriterInv'
  BY <1>0, <1>1, <1>c, <1>7, FillWriters DEF MarkEnded, ghostVars
<1>8. CASE ClearedOutput
  BY <1>0, <1>1, <1>8, ClearedWriters DEF ClearedOutput
<1>9. CASE Remove
  BY <1>0, <1>1, <1>9 DEF Remove, historyVars, ghostVars
<1>10. CASE ManagerCrash
  BY <1>0, <1>1, <1>c, <1>10 DEF ManagerCrash
<1> QED BY <1>2, <1>3, <1>4, <1>5, <1>6, <1>7, <1>8, <1>9, <1>10, HistorySteps DEF HistoryStep

\* Only the end of a shell sends the exit event.
LEMMA ExitSent ==
  ASSUME OneOrder, TypeOK, [Next]_vars, Coming("exit")'
  PROVE  Coming("exit") \/ ShellExits
<1>a. {"has", "hasnt", "created", "refused", "exit", "seen", "unseen"} \subseteq Message
  BY DEF Message
<1>1. CASE UNCHANGED inbox
  BY <1>1 DEF Coming
<1>2. CASE \E m : Receive(m)
  BY <1>2, ReceiveComing
<1>3. CASE inbox' = << >>
  BY <1>3, NothingUnderWay
<1>4. CASE HandleList \/ HandleSurvey \/ SpawnFails \/ Attached
  <2>1. \E m \in Message \ {"exit"} : Send(m)
    BY <1>4, <1>a DEF HandleList, HandleSurvey, SpawnFails, Attached
  <2> QED BY <2>1, SendComing
<1> QED BY <1>1, <1>2, <1>3, <1>4 DEF Next, vars, Call, Sticky, Permit, ReadMeta,
      ReadScrollback, Remove, Removed, Acknowledge, Kill, KillSends, Survey, Listed, Surveyed,
      Created, Refused, Exit, Forget, Disconnected, Fill, Install, MarkEnded, ClearedOutput,
      HandleCreate, HandleKill, Spawned, DaemonCrash, ManagerCrash, ManagerStarts

\* Nothing else disturbs the order of exit events and answers.
LEMMA OrderStep ==
  ASSUME OneOrder, TypeOK, ExitsFirst, [Next]_vars, ~ShellExits
  PROVE  ExitsFirst'
<1>a. {"has", "hasnt", "created", "refused", "exit", "seen", "unseen"} \subseteq Message
  BY DEF Message
<1>1. CASE UNCHANGED inbox
  BY <1>1 DEF ExitsFirst
<1>2. ASSUME NEW m, Receive(m) PROVE ExitsFirst'
  <2>1. /\ Len(inbox') \in Nat /\ Len(inbox) = Len(inbox') + 1
        /\ \A k \in 1 .. Len(inbox') : inbox'[k] = inbox[k + 1]
    BY <1>2, ReceiveFirst
  <2> SUFFICES ASSUME NEW i \in 1 .. Len(inbox'), NEW j \in 1 .. Len(inbox'),
                      inbox'[i] = "created", inbox'[j] = "exit"
               PROVE  j < i
    BY DEF ExitsFirst
  <2>2. i + 1 \in 1 .. Len(inbox) /\ j + 1 \in 1 .. Len(inbox)
        /\ inbox[i + 1] = "created" /\ inbox[j + 1] = "exit"
    BY <2>1
  <2>3. j + 1 < i + 1
    BY <2>2 DEF ExitsFirst
  <2> QED BY <2>3
<1>3. CASE inbox' = << >>
  BY <1>3 DEF ExitsFirst
<1>4. ASSUME NEW m \in Message \ {"exit"}, Send(m) PROVE ExitsFirst'
  <2>1. CASE ~up
    BY <1>4, <2>1, SendLast DEF ExitsFirst
  <2>2. CASE up
    <3>1. /\ Len(inbox') = Len(inbox) + 1 /\ Len(inbox) \in Nat
          /\ \A k \in 1 .. Len(inbox) : inbox'[k] = inbox[k]
          /\ inbox'[Len(inbox) + 1] = m
      BY <1>4, <2>2, SendLast, Channels
    <3> SUFFICES ASSUME NEW i \in 1 .. Len(inbox'), NEW j \in 1 .. Len(inbox'),
                        inbox'[i] = "created", inbox'[j] = "exit"
                 PROVE  j < i
      BY DEF ExitsFirst
    <3>2. j \in 1 .. Len(inbox) /\ inbox[j] = "exit"
      BY <1>4, <3>1
    <3>3. CASE i = Len(inbox) + 1
      BY <3>1, <3>2, <3>3
    <3>4. CASE i \in 1 .. Len(inbox)
      BY <3>1, <3>2, <3>4 DEF ExitsFirst
    <3> QED BY <3>1, <3>3, <3>4
  <2> QED BY <2>1, <2>2
<1>5. CASE HandleList \/ HandleSurvey \/ SpawnFails \/ Attached
  <2>1. \E m \in Message \ {"exit"} : Send(m)
    BY <1>5, <1>a DEF HandleList, HandleSurvey, SpawnFails, Attached
  <2> QED BY <1>4, <2>1
<1> QED BY <1>1, <1>2, <1>3, <1>5 DEF Next, vars, Call, Sticky, Permit, ReadMeta,
      ReadScrollback, Remove, Removed, Acknowledge, Kill, KillSends, Survey, Listed, Surveyed,
      Created, Refused, Exit, Forget, Disconnected, Fill, Install, MarkEnded, ClearedOutput,
      HandleCreate, HandleKill, Spawned, DaemonCrash, ManagerCrash, ManagerStarts

\* Where the answer to a createOrAttach is received, no exit event is behind it.
LEMMA CreatedLast ==
  ASSUME OneOrder, TypeOK, ExitsFirst, Created
  PROVE  ~Coming("exit")
<1> SUFFICES ASSUME Coming("exit") PROVE FALSE
  OBVIOUS
<1>1. PICK j \in 1 .. Len(inbox) : inbox[j] = "exit"
  BY Channels DEF Coming
<1>2. inbox[1] = "created" /\ 1 \in 1 .. Len(inbox)
  BY ReceiveFirst DEF Created
<1>3. j < 1
  BY <1>1, <1>2 DEF ExitsFirst
<1> QED BY <1>3

LEMMA ExitStep ==
  ASSUME Assumed, TypeOK, WriterInv, ExitInv, [Next]_vars
  PROVE  ExitInv'
<1>a. OneOrder /\ QuietSetUp
  BY DEF Assumed, Orderly
<1>1. CASE ShellExits
  <2>1. ~Initialising /\ ~Coming("created") /\ Send("exit") /\ UNCHANGED phase
    BY <1>1, <1>a DEF ShellExits, Quiet, SettingUp, historyVars
  <2>2. "exit" \in Message /\ "exit" # "created"
    BY DEF Message
  <2>3. ~Initialising' /\ ~Coming("created")'
    BY <2>1, <2>2, SendComing DEF Initialising
  <2>4. ASSUME NEW i \in 1 .. Len(inbox') PROVE inbox'[i] # "created"
    <3>1. DOMAIN inbox' = 1 .. Len(inbox')
      BY <2>1, <2>2, SendLast, Channels DEF TypeOK, Send
    <3> QED BY <2>3, <3>1 DEF Coming
  <2> QED BY <2>3, <2>4 DEF ExitInv, ExitsFirst
<1>2. CASE ~ShellExits
  <2>1. ExitsFirst'
    BY <1>a, <1>2, OrderStep DEF ExitInv
  <2>2. SUFFICES ASSUME Coming("exit")' PROVE ~Initialising'
    BY <2>1 DEF ExitInv
  <2>3. Coming("exit") /\ ~Initialising
    BY <1>a, <1>2, <2>2, ExitSent DEF ExitInv
  <2>4. CASE UNCHANGED <<historyVars, diskVars, kept, over>>
    BY <2>3, <2>4 DEF historyVars, Initialising
  <2>5. CASE CloseStep
    BY <2>3, <2>5, CloseWriters DEF CloseStep, Initialising
  <2>6. ~Created
    BY <1>a, <2>3, CreatedLast DEF ExitInv
  <2>7. ASSUME NEW w \in Writers, Fill(w) \/ Install(w) PROVE FALSE
    BY <2>3, <2>7 DEF Fill, Install, Initialising
  <2>8. ASSUME NEW w \in Writers, MarkEnded(w) PROVE ~Initialising'
    BY <2>3, <2>8, FillWriters DEF Initialising, Free
  <2>9. ~ClearedOutput
    BY <1>a, <2>3 DEF ClearedOutput
  <2>10. CASE Remove
    BY <2>3, <2>10 DEF Remove, Initialising, historyVars
  <2>11. CASE ManagerCrash
    BY <2>11 DEF ManagerCrash, Initialising, Free
  <2> QED BY <1>a, <2>4, <2>5, <2>6, <2>7, <2>8, <2>9, <2>10, <2>11, HistorySteps DEF HistoryStep
<1> QED BY <1>1, <1>2

-----------------------------------------------------------------------------
(* The files of a closed history *)

\* Nobody writes for a shell whose history was closed, and where its files have no
\* endedAt, a writer is about to add it.
OverInv ==
  /\ \A w \in Writers : phase[w].at \in {"making", "filled", "open"} => phase[w].of \notin over
  /\ (\E w \in Writers : phase[w].at = "filled") => scrollback \notin over
  /\ meta = "open" /\ scrollback \in over =>
       \E w \in Writers : phase[w].at = "closing" /\ phase[w].of = scrollback

LEMMA OverStep ==
  ASSUME Assumed, TypeOK, WriterInv, ExitInv, OverInv, [Next]_vars
  PROVE  OverInv'
<1>0. /\ \A w \in Writers : phase[w].at \in {"making", "filled", "open"} => phase[w].of \notin over
      /\ (\E w \in Writers : phase[w].at = "filled") => scrollback \notin over
      /\ meta = "open" /\ scrollback \in over =>
           \E w \in Writers : phase[w].at = "closing" /\ phase[w].of = scrollback
  BY DEF OverInv
<1>a. Free.at = "free"
  BY DEF Free
<1>b. /\ 0 \notin over /\ \A w \in Writers : phase[w].at = "open" <=> w = writer
      /\ OneOrder
  BY NoneAssumption DEF WriterInv, TypeOK, Assumed, Orderly
<1>1. CASE UNCHANGED <<historyVars, diskVars, kept, over>>
  BY <1>0, <1>1 DEF historyVars, diskVars, OverInv
<1>2. CASE CloseStep
  <2>1. \A w \in Writers : /\ phase'[w].of = phase[w].of
                           /\ phase'[w].at = IF phase[w].at = "open" THEN "closing"
                                             ELSE phase[w].at
    BY <1>2, CloseWriters DEF CloseStep
  <2>2. \A w \in Writers : phase[w].at \notin {"making", "filled"}
    BY <1>2 DEF CloseStep, Quiet, SettingUp, ExitInv, Initialising, Assumed
  <2>3. over' = over \cup {phase[w].of : w \in {w \in Writers : w = writer \/ phase[w].at \in {"making", "filled"}}}
    BY <1>2 DEF CloseStep, Ended
  <2>4. \A n \in over' : n \in over \/ \E w \in Writers : phase[w].at = "open" /\ phase[w].of = n
    BY <1>b, <2>2, <2>3
  <2>5. \A w \in Writers : phase'[w].at \notin {"making", "filled", "open"}
    BY <2>1, <2>2
  <2>6. meta' = meta /\ scrollback' = scrollback
    BY <1>2 DEF CloseStep, diskVars
  <2>7. ASSUME meta' = "open", scrollback' \in over'
        PROVE  \E w \in Writers : phase'[w].at = "closing" /\ phase'[w].of = scrollback'
    <3>1. CASE scrollback \in over
      BY <1>0, <2>1, <2>6, <2>7, <3>1
    <3>2. CASE scrollback \notin over
      BY <2>1, <2>4, <2>6, <2>7, <3>2
    <3> QED BY <3>1, <3>2
  <2> QED BY <2>5, <2>7 DEF OverInv
<1>3. CASE Created
  <2>1. InitHistoryWriter /\ over' = over \ {shells} /\ meta' = meta /\ scrollback' = scrollback
    BY <1>3 DEF Created, diskVars
  <2>2. PICK v \in Writers :
           /\ phase[v].at = "free"
           /\ phase'[v].at = "making" /\ phase'[v].of = shells
           /\ \A w \in Writers \ {v} : phase'[w] = phase[w]
    BY <2>1, InitWriters
  <2> QED BY <1>0, <2>1, <2>2 DEF OverInv
<1>4. ASSUME NEW w \in Writers, Fill(w) PROVE OverInv'
  <2>1. scrollback' = phase[w].of /\ phase[w].at = "making" /\ UNCHANGED <<meta, over>>
    BY <1>4 DEF Fill, ghostVars
  <2>2. scrollback' \notin over'
    BY <1>0, <2>1
  <2> QED BY <1>0, <1>4, <2>1, <2>2, FillWriters DEF OverInv
<1>5. ASSUME NEW w \in Writers, Install(w) PROVE OverInv'
  <2>1. phase[w].at = "filled" /\ UNCHANGED <<scrollback, over>>
    BY <1>5 DEF Install
  <2>2. scrollback' \notin over'
    BY <1>0, <2>1
  <2> QED BY <1>0, <1>a, <1>5, <2>1, <2>2, InstallWriters DEF OverInv
<1>6. ASSUME NEW w \in Writers, MarkEnded(w) PROVE OverInv'
  <2>1. meta' # "open" /\ UNCHANGED <<scrollback, over>>
    BY <1>6 DEF MarkEnded, ghostVars
  <2> QED BY <1>0, <1>a, <1>6, <2>1, FillWriters DEF OverInv
<1>7. CASE ClearedOutput
  <2>1. UNCHANGED <<meta, scrollback, over>>
    BY <1>7 DEF ClearedOutput, diskVars
  <2> QED BY <1>0, <1>7, <2>1, ClearedWriters DEF OverInv
<1>8. CASE Remove
  <2>1. UNCHANGED <<phase, over>>
    BY <1>8 DEF Remove, historyVars, ghostVars
  <2>2. \/ meta' = "none" /\ scrollback' = scrollback
        \/ scrollback' = 0 /\ meta' = meta
    BY <1>8 DEF Remove, RemoveFile
  <2> QED BY <1>0, <1>b, <2>1, <2>2 DEF OverInv
<1>9. CASE ManagerCrash
  <2>1. \A w \in Writers : phase'[w].at = "free"
    BY <1>9, <1>a DEF ManagerCrash
  <2>2. over' = over \ {phase[w].of : w \in {v \in Writers : phase[v].at = "closing"}}
        /\ meta' = meta /\ scrollback' = scrollback
    BY <1>9 DEF ManagerCrash, diskVars
  <2>3. ~(meta' = "open" /\ scrollback' \in over')
    BY <1>0, <2>2
  <2> QED BY <2>1, <2>3 DEF OverInv
<1> QED BY <1>1, <1>2, <1>3, <1>4, <1>5, <1>6, <1>7, <1>8, <1>9, <1>b, HistorySteps DEF HistoryStep

-----------------------------------------------------------------------------
(* The files of a shell whose history is kept *)

\* While the exit event of an earlier shell is on its way, the live one has no writer
\* and is not reported behind it.
LiveInv ==
  shell = "live" =>
    /\ ExitsFirst
    /\ Coming("exit") => \A w \in Writers : phase[w].at # "free" => phase[w].of # shells

Wanted == shell = "live" /\ shells \notin unwanted
Restorable == meta = "open" /\ scrollback # 0 /\ ~Closing /\ ~killing

KeptInv ==
  /\ kept <= shells
  /\ \A w \in Writers : phase[w].at = "filled" /\ phase[w].of = shells /\ Wanted =>
       scrollback # 0 /\ ~killing
  /\ Wanted /\ kept # 0 /\ kept = shells => Restorable
  /\ shell = "live" /\ kept # 0 /\ kept = shells => ~Coming("exit")

\* killing is set by a kill only, and then the shell is not wanted.
LEMMA KillingStep ==
  ASSUME [Next]_vars, killing', ~killing
  PROVE  ~Wanted'
<1>1. CASE \E how \in {"plain", "delete", "workspace"} : Kill(how)
  BY <1>1 DEF Kill, Wanted, daemonVars
<1> QED BY <1>1 DEF Next, vars, managerVars, Call, Sticky, Permit, ReadMeta, ReadScrollback,
      Remove, Removed, Acknowledge, KillSends, Survey, Listed, Surveyed, Created, Refused, Exit,
      Forget, Disconnected, Fill, Install, MarkEnded, ClearedOutput, HandleSurvey, HandleList,
      HandleCreate, HandleKill, Spawned, SpawnFails, Attached, ShellExits, DaemonCrash,
      ManagerCrash, ManagerStarts

\* A shell that is live, and wanted, and not new, was so before.
LEMMA WantedStep ==
  ASSUME TypeOK, [Next]_vars
  PROVE  /\ Spawned => shells' = shells + 1 /\ UNCHANGED <<historyVars, diskVars, kept, killing>>
         /\ ~Spawned => shells' = shells /\ (Wanted' => Wanted)
         /\ shells \in Nat /\ kept \in Nat
<1>1. ASSUME Spawned PROVE shells' = shells + 1 /\ UNCHANGED <<historyVars, diskVars, kept, killing>>
  BY <1>1 DEF Spawned, managerVars, ghostVars
<1>2. ASSUME ~Spawned PROVE shells' = shells /\ (Wanted' => Wanted)
  BY <1>2, ShellStep DEF Wanted
<1>3. shells \in Nat /\ kept \in Nat
  BY MaxShellsAssumption DEF TypeOK, Shells
<1> QED BY <1>1, <1>2, <1>3

LEMMA LiveStep ==
  ASSUME OneOrder, TypeOK, ChannelInv, WriterInv, LiveInv, [Next]_vars
  PROVE  LiveInv'
<1>a. Free.at = "free"
  BY DEF Free
<1>b. shells \in Nat
  BY WantedStep
<1>1. CASE Spawned
  <2>1. shells' = shells + 1 /\ UNCHANGED <<phase, inbox>>
    BY <1>1 DEF Spawned, historyVars
  <2>2. NoneOf(inbox, Answer)
    BY <1>1 DEF ChannelInv, SingleInv, Spawned
  <2>3. \A i \in 1 .. Len(inbox') : inbox'[i] # "created"
    BY <2>1, <2>2 DEF NoneOf, Answer
  <2>4. \A w \in Writers : phase'[w].at # "free" => phase'[w].of # shells'
    BY <1>b, <2>1 DEF WriterInv
  <2> QED BY <2>3, <2>4 DEF LiveInv, ExitsFirst
<1>2. CASE ~Spawned
  <2> SUFFICES ASSUME shell' = "live" PROVE LiveInv'
    BY DEF LiveInv
  <2>1. shell = "live" /\ shells' = shells /\ ~ShellExits
    BY <1>2, ShellStep DEF ShellExits
  <2>2. ExitsFirst /\ ExitsFirst'
    BY <2>1, OrderStep DEF LiveInv
  <2> SUFFICES ASSUME Coming("exit")'
               PROVE  \A w \in Writers : phase'[w].at # "free" => phase'[w].of # shells
    BY <2>1, <2>2 DEF LiveInv
  <2>3. \A w \in Writers : phase[w].at # "free" => phase[w].of # shells
    BY <2>1, ExitSent DEF LiveInv
  <2>4. CASE UNCHANGED <<historyVars, diskVars, kept, over>>
    BY <2>3, <2>4 DEF historyVars
  <2>5. CASE CloseStep
    BY <2>3, <2>5, CloseWriters DEF CloseStep
  <2>6. ~Created
    BY <2>1, <2>2, CreatedLast, ExitSent
  <2>7. ASSUME NEW w \in Writers, Fill(w) \/ MarkEnded(w)
        PROVE  \A v \in Writers : phase'[v].at # "free" => phase'[v].of # shells
    BY <1>a, <2>3, <2>7, FillWriters DEF Fill
  <2>8. ASSUME NEW w \in Writers, Install(w)
        PROVE  \A v \in Writers : phase'[v].at # "free" => phase'[v].of # shells
    BY <1>a, <2>3, <2>8, InstallWriters DEF Install
  <2>9. CASE ClearedOutput
    BY <2>3, <2>9, ClearedWriters
  <2>10. CASE Remove
    BY <2>3, <2>10 DEF Remove, historyVars
  <2>11. CASE ManagerCrash
    BY <1>a, <2>11 DEF ManagerCrash
  <2> QED BY <2>4, <2>5, <2>6, <2>7, <2>8, <2>9, <2>10, <2>11, HistorySteps DEF HistoryStep
<1> QED BY <1>1, <1>2

LEMMA KeptStep ==
  ASSUME Orderly, TypeOK, ViewInv, WriterInv, LiveInv, KeptInv, [Next]_vars
  PROVE  KeptInv'
<1>0. /\ kept <= shells
      /\ \A w \in Writers : phase[w].at = "filled" /\ phase[w].of = shells /\ Wanted =>
           scrollback # 0 /\ ~killing
      /\ Wanted /\ kept # 0 /\ kept = shells => Restorable
      /\ shell = "live" /\ kept # 0 /\ kept = shells => ~Coming("exit")
  BY DEF KeptInv
<1>a. Free.at = "free"
  BY DEF Free
<1>b. \A w \in Writers : phase[w].at # "free" => phase[w].of \in 1 .. shells
  BY DEF WriterInv
<1>c. shells \in Nat /\ kept \in Nat /\ OneOrder
  BY WantedStep DEF Orderly
<1>d. Wanted' /\ ~killing => ~killing'
  BY KillingStep DEF TypeOK
<1>1. CASE Spawned
  <2>1. shells' = shells + 1 /\ UNCHANGED <<historyVars, diskVars, kept, killing>>
    BY <1>1, WantedStep
  <2>2. kept' <= shells' /\ kept' # shells'
    BY <1>0, <1>c, <2>1
  <2>3. \A w \in Writers : phase'[w].at = "filled" => phase'[w].of # shells'
    BY <1>b, <1>c, <2>1 DEF historyVars
  <2> QED BY <2>2, <2>3 DEF KeptInv
<1>2. CASE ~Spawned
  <2>0. shells' = shells /\ (Wanted' => Wanted) /\ (shell' = "live" => shell = "live")
    BY <1>2, WantedStep, ShellStep
  <2>a. shell' = "live" /\ Coming("exit")' => Coming("exit")
    BY <1>c, ExitSent DEF ShellExits
  <2>1. CASE UNCHANGED <<historyVars, diskVars, kept, over>>
    <3>1. UNCHANGED <<phase, meta, scrollback, kept>>
      BY <2>1 DEF historyVars, diskVars
    <3> QED BY <3>1, <1>0, <1>d, <2>0, <2>a DEF KeptInv, Restorable, Closing
  <2>2. CASE CloseStep
    <3>1. \A w \in Writers : phase'[w].at = "filled" =>
                               phase[w].at = "filled" /\ phase'[w].of = phase[w].of
      BY <2>2, CloseWriters DEF CloseStep
    <3>2. kept' = 0 /\ UNCHANGED scrollback
      BY <2>2 DEF CloseStep, CloseHistoryWriter, diskVars
    <3> QED BY <1>0, <1>c, <1>d, <2>0, <3>1, <3>2 DEF KeptInv
  <2>3. CASE Created
    <3>1. /\ InitHistoryWriter /\ kept' = (IF kept = shells THEN kept ELSE 0)
          /\ UNCHANGED <<meta, scrollback, killing>>
      BY <2>3 DEF Created, diskVars
    <3>2. PICK v \in Writers :
             /\ phase[v].at = "free"
             /\ phase'[v].at = "making" /\ phase'[v].of = shells
             /\ \A w \in Writers \ {v} : phase'[w] = phase[w]
      BY <3>1, InitWriters
    <3>3. kept' <= shells' /\ (kept' # 0 => kept' = kept)
      BY <1>0, <1>c, <2>0, <3>1
    <3>4. \A w \in Writers : phase'[w].at \in {"filled", "closing"} => phase'[w] = phase[w]
      BY <3>2
    <3>5. Restorable => Restorable'
      BY <3>1, <3>4 DEF Restorable, Closing
    <3> QED BY <1>0, <2>0, <2>a, <3>1, <3>3, <3>4, <3>5 DEF KeptInv
  <2>4. ASSUME NEW w \in Writers, Fill(w) PROVE KeptInv'
    <3>1. /\ scrollback' = phase[w].of /\ phase[w].at = "making"
          /\ UNCHANGED <<meta, kept, killing>> /\ ~killing
      BY <2>4 DEF Fill, ghostVars, managerVars, Settled, Orderly
    <3>2. scrollback' # 0
      BY <1>b, <1>c, <3>1
    <3>3. Closing' => Closing
      BY <2>4, FillWriters DEF Closing
    <3>4. Restorable => Restorable'
      BY <3>1, <3>2, <3>3 DEF Restorable
    <3> QED BY <1>0, <2>0, <2>a, <3>1, <3>2, <3>4 DEF KeptInv
  <2>5. ASSUME NEW w \in Writers, Install(w) PROVE KeptInv'
    <3>1. /\ phase[w].at = "filled" /\ kept' = phase[w].of /\ ~Closing /\ ~killing
          /\ UNCHANGED <<scrollback, killing>>
          /\ scrollback # 0 => meta' = "open"
      BY <2>5 DEF Install, managerVars, Settled, Orderly
    <3>2. kept' <= shells'
      BY <1>b, <1>c, <2>0, <3>1
    <3>3. ~Closing'
      BY <1>a, <2>5, <3>1, InstallWriters DEF Closing
    <3>4. \A v \in Writers : phase'[v].at = "filled" => phase'[v] = phase[v]
      BY <1>a, <2>5, InstallWriters
    <3>5. Wanted' /\ kept' = shells' => Restorable'
      BY <1>0, <2>0, <3>1, <3>3 DEF Restorable
    <3>6. shell' = "live" /\ kept' = shells' => ~Coming("exit")
      BY <2>0, <3>1 DEF LiveInv
    <3> QED BY <1>0, <2>0, <2>a, <3>1, <3>2, <3>4, <3>5, <3>6 DEF KeptInv
  <2>6. ASSUME NEW w \in Writers, MarkEnded(w) PROVE KeptInv'
    <3>1. Closing /\ UNCHANGED <<scrollback, kept, killing>>
      BY <2>6 DEF MarkEnded, managerVars, ghostVars, Closing
    <3>2. \A v \in Writers : phase'[v].at = "filled" => phase'[v] = phase[v]
      BY <1>a, <2>6, FillWriters
    <3>3. ~Restorable
      BY <3>1 DEF Restorable
    <3> QED BY <1>0, <2>0, <2>a, <3>1, <3>2, <3>3 DEF KeptInv
  <2>7. CASE ClearedOutput
    <3>1. kept' = 0 /\ UNCHANGED <<scrollback, killing>>
      BY <2>7 DEF ClearedOutput, managerVars, diskVars
    <3>2. \A v \in Writers : phase'[v].at = "filled" => phase'[v] = phase[v]
      BY <2>7, ClearedWriters
    <3> QED BY <1>0, <1>c, <2>0, <3>1, <3>2 DEF KeptInv
  <2>8. CASE Remove
    <3>1. UNCHANGED <<phase, kept, killing>>
      BY <2>8 DEF Remove, historyVars, managerVars, ghostVars
    <3>2. killing \/ ~Wanted
      BY <2>8 DEF Remove, At, ViewInv, CallInv, Unknown, Wanted
    <3>3. Wanted' => killing
      BY <2>0, <3>2
    <3>4. killing => ~Restorable
      BY DEF Restorable
    <3> QED BY <1>0, <2>0, <2>a, <3>1, <3>3, <3>4 DEF KeptInv
  <2>9. CASE ManagerCrash
    <3>1. \A w \in Writers : phase'[w].at = "free"
      BY <1>a, <2>9 DEF ManagerCrash
    <3>2. killing' = FALSE /\ UNCHANGED <<meta, scrollback, kept>>
      BY <2>9 DEF ManagerCrash, diskVars
    <3>3. Restorable => Restorable'
      BY <3>1, <3>2 DEF Restorable, Closing
    <3> QED BY <1>0, <2>0, <2>a, <3>1, <3>2, <3>3 DEF KeptInv
  <2> QED BY <2>1, <2>2, <2>3, <2>4, <2>5, <2>6, <2>7, <2>8, <2>9, <1>c, HistorySteps DEF HistoryStep
<1> QED BY <1>1, <1>2

-----------------------------------------------------------------------------
(* The files of a lost shell *)

\* The manager is not about to find or to create a session.
Apart ==
  /\ ~UnderWay("create") /\ ~cached /\ call.pc # "create"
  /\ ~Coming("has") /\ ~Coming("seen") /\ ~Coming("created")

LostInv ==
  lost # 0 =>
    /\ Restorable
    /\ shell = "none" /\ busy = "no" /\ ~Coming("exit")
    /\ call.pc \notin {"discard", "rm"}
    /\ hangup \/ Apart

LEMMA LostBegins ==
  ASSUME OneOrder, TypeOK, ChannelInv, ViewInv, WriterInv, KeptInv, LostInv, DaemonCrash
  PROVE  LostInv'
<1>a. UNCHANGED <<phase, meta, scrollback, killing, call, inbox, cached, up>>
  BY DEF DaemonCrash, historyVars, diskVars, managerVars
<1>b. Restorable' <=> Restorable
  BY <1>a DEF Restorable, Closing
<1>c. \A x : Coming(x)' <=> Coming(x)
  BY <1>a DEF Coming
<1>d. shell' = "none" /\ busy' = "no" /\ ~hangup
  BY DEF DaemonCrash
<1>1. hangup' \/ Apart'
  <2>1. CASE up
    BY <2>1 DEF DaemonCrash
  <2>2. CASE ~up
    <3>1. wire' = << >> /\ inbox' = << >> /\ ~cached' /\ call' = Idle
      BY <1>a, <2>2 DEF DaemonCrash, ChannelInv, DownInv
    <3> QED BY <3>1, NothingUnderWay DEF Apart, Idle
  <2> QED BY <2>1, <2>2
<1>2. CASE shell = "live" /\ kept = shells /\ shells \notin unwanted /\ kept # 0
  <2>1. Restorable /\ ~Coming("exit")
    BY <1>2 DEF KeptInv, Wanted
  <2>2. call.pc \notin {"discard", "rm"}
    BY <1>2 DEF ViewInv, CallInv, Unknown
  <2> QED BY <1>a, <1>b, <1>c, <1>d, <1>1, <2>1, <2>2 DEF LostInv
<1>3. CASE lost' = lost
  BY <1>3, <1>a, <1>b, <1>c, <1>d, <1>1 DEF LostInv
<1>4. CASE lost' = 0
  BY <1>4 DEF LostInv
<1> QED BY <1>2, <1>3, <1>4 DEF DaemonCrash

LEMMA DecideLost ==
  ASSUME NEW has, Decide(has), lost' # 0
  PROVE  /\ lost' = lost /\ UNCHANGED historyVars
         /\ \/ has /\ SendCreate
            \/ ~has /\ GoTo("meta") /\ UNCHANGED wire
BY DEF Decide, ghostVars

LEMMA LostRestorable ==
  ASSUME OneOrder, TypeOK, ChannelInv, WriterInv, LostInv, [Next]_vars, ~DaemonCrash, lost' # 0
  PROVE  lost # 0 /\ Restorable'
<1>0. lost' = lost
  <2>1. CASE Permit
    BY <2>1, DecideLost DEF Permit, ghostVars
  <2>2. CASE \E m \in {"has", "hasnt"} : Listed(m)
    BY <2>2, DecideLost DEF Listed
  <2>3. CASE (\E how \in {"plain", "delete", "workspace"} : Kill(how)) \/ Disconnected
    BY <2>3 DEF Kill, Disconnected, ghostVars
  <2> QED BY <2>1, <2>2, <2>3 DEF Next, vars, ghostVars, Call, Sticky, ReadMeta, ReadScrollback,
      Remove, Removed, Acknowledge, KillSends, Survey, Surveyed, Created, Refused, Exit,
      Forget, Fill, Install, MarkEnded, ClearedOutput, HandleSurvey, HandleList, HandleCreate,
      HandleKill, Spawned, SpawnFails, Attached, ShellExits, ManagerCrash, ManagerStarts
<1>a. /\ lost # 0 /\ meta = "open" /\ scrollback # 0 /\ ~killing
      /\ \A w \in Writers : phase[w].at # "closing"
      /\ shell = "none" /\ busy = "no" /\ ~Coming("exit")
      /\ call.pc \notin {"discard", "rm"}
      /\ hangup \/ Apart
  BY <1>0 DEF LostInv, Restorable, Closing
<1>b. Free.at = "free"
  BY DEF Free
<1>c. ASSUME meta' = "open", scrollback' # 0, ~killing',
             \A w \in Writers : phase'[w].at # "closing"
      PROVE  Restorable'
  BY <1>c DEF Restorable, Closing
<1>1. CASE UNCHANGED <<phase, meta, scrollback, killing>>
  BY <1>1, <1>a, <1>c
<1>2. CASE Permit
  BY <1>2, <1>1, DecideLost DEF Permit, historyVars, diskVars
<1>3. CASE \E m \in {"has", "hasnt"} : Listed(m)
  <2>1. UNCHANGED historyVars
    BY <1>3, DecideLost DEF Listed
  <2> QED BY <1>3, <1>1, <2>1 DEF Listed, historyVars, diskVars
<1>4. CASE \E how \in {"plain", "delete", "workspace"} : Kill(how)
  BY <1>4 DEF Kill
<1>5. CASE Exit
  BY <1>5, <1>a, ReceiveComing DEF Exit
<1>6. CASE Disconnected
  BY <1>6, <1>1 DEF Disconnected, historyVars, diskVars
<1>7. CASE Created
  <2>1. InitHistoryWriter /\ UNCHANGED <<meta, scrollback, killing>>
    BY <1>7 DEF Created, diskVars
  <2> QED BY <1>a, <1>c, <2>1, InitWriters
<1>8. ASSUME NEW w \in Writers, Fill(w) PROVE Restorable'
  <2>1. scrollback' = phase[w].of /\ UNCHANGED <<meta, killing>>
    BY <1>8 DEF Fill, managerVars
  <2>2. scrollback' # 0
    BY <1>8, <2>1 DEF WriterInv, Fill
  <2> QED BY <1>a, <1>c, <1>8, <2>1, <2>2, FillWriters
<1>9. ASSUME NEW w \in Writers, Install(w) PROVE Restorable'
  <2>1. meta' = "open" /\ UNCHANGED <<scrollback, killing>>
    BY <1>9, <1>a DEF Install, managerVars
  <2> QED BY <1>a, <1>b, <1>c, <1>9, <2>1, InstallWriters
<1>10. ASSUME NEW w \in Writers, MarkEnded(w) PROVE FALSE
  BY <1>10, <1>a DEF MarkEnded
<1>11. CASE ClearedOutput
  BY <1>11, <1>a DEF ClearedOutput
<1>12. CASE Remove
  BY <1>12, <1>a DEF Remove, At
<1>13. CASE KillSends
  BY <1>13, <1>a DEF KillSends
<1>14. CASE ManagerCrash
  BY <1>14, <1>a, <1>b, <1>c DEF ManagerCrash, diskVars
<1> QED BY <1>a, <1>1, <1>2, <1>3, <1>4, <1>5, <1>6, <1>7, <1>8, <1>9, <1>10, <1>11, <1>12, <1>13, <1>14
    DEF Next, vars, managerVars, historyVars, diskVars, Call, Sticky, ReadMeta, ReadScrollback,
      Removed, Acknowledge, Survey, Surveyed, Refused, Forget, HandleSurvey, HandleList,
      HandleCreate, HandleKill, Spawned, SpawnFails, Attached, ShellExits, ManagerStarts

LEMMA LostStep ==
  ASSUME OneOrder, TypeOK, ChannelInv, ViewInv, WriterInv, KeptInv, LostInv, [Next]_vars
  PROVE  LostInv'
<1> SUFFICES ASSUME ~DaemonCrash, lost' # 0 PROVE LostInv'
  BY LostBegins DEF LostInv
<1>0. /\ lost # 0 /\ Restorable /\ Restorable'
      /\ meta = "open" /\ scrollback # 0 /\ ~killing /\ \A w \in Writers : phase[w].at # "closing"
      /\ shell = "none" /\ busy = "no" /\ ~Coming("exit")
      /\ call.pc \notin {"discard", "rm"}
      /\ hangup \/ Apart
  BY LostRestorable DEF LostInv, Restorable, Closing
<1>a. {"has", "hasnt", "created", "refused", "exit", "seen", "unseen"} \subseteq Message
      /\ {"list", "create", "kill", "survey"} \subseteq Request
  BY DEF Message, Request
<1>b. call \in [pc : Stage, skip : BOOLEAN]
  BY DEF TypeOK
<1>c. UNCHANGED wire => \A x : UnderWay(x)' <=> UnderWay(x)
  BY DEF UnderWay
<1>d. UNCHANGED inbox => \A x : Coming(x)' <=> Coming(x)
  BY DEF Coming
<1>e. ASSUME shell' = "none", busy' = "no", ~Coming("exit")',
             call'.pc \notin {"discard", "rm"}, hangup' \/ Apart'
      PROVE  LostInv'
  BY <1>0, <1>e DEF LostInv
<1>f. Idle.pc = "idle"
  BY DEF Idle
<1>1. CASE UNCHANGED <<shell, busy, hangup, cached, call, wire, inbox>>
  BY <1>0, <1>1, <1>c, <1>d, <1>e DEF Apart
<1>2. CASE (\E skip \in BOOLEAN : Call(skip)) \/ Sticky \/ ReadScrollback
  <2>1. UNCHANGED <<shell, busy, hangup, cached, wire, inbox>>
    BY <1>2 DEF Call, Sticky, ReadScrollback, daemonVars
  <2>2. call'.pc \notin {"discard", "rm", "create"}
    BY <1>0, <1>2, <1>f DEF Call, Sticky, ReadScrollback
  <2> QED BY <1>0, <1>c, <1>d, <1>e, <2>1, <2>2 DEF Apart
<1>3. CASE Permit
  <2>1. UNCHANGED <<shell, busy, hangup, cached, inbox>>
    BY <1>3 DEF Permit, daemonVars
  <2>2. CASE ~hydrated
    <3>1. call'.pc = "list" /\ wire' = Append(wire, "list")
      BY <1>3, <1>b, <2>2 DEF Permit, GoTo
    <3> QED BY <1>0, <1>a, <1>d, <1>e, <2>1, <3>1, RequestUnderWay DEF Apart
  <2>3. CASE hydrated
    <3>1. Decide(cached)
      BY <1>3, <2>3 DEF Permit
    <3>2. CASE cached /\ SendCreate
      <4>1. call'.pc = "create" /\ hangup
        BY <1>0, <1>b, <3>2 DEF SendCreate, GoTo, Apart
      <4> QED BY <1>0, <1>d, <1>e, <2>1, <4>1
    <3>3. CASE GoTo("meta") /\ UNCHANGED wire
      <4>1. call'.pc = "meta"
        BY <1>b, <3>3 DEF GoTo
      <4> QED BY <1>0, <1>c, <1>d, <1>e, <2>1, <3>3, <4>1 DEF Apart
    <3> QED BY <3>1, <3>2, <3>3, DecideLost
  <2> QED BY <2>2, <2>3
<1>4. CASE ReadMeta
  <2>1. UNCHANGED <<shell, busy, hangup, cached, inbox, wire>>
    BY <1>0, <1>4 DEF ReadMeta, daemonVars, Unclean
  <2>2. call'.pc = "scroll"
    BY <1>0, <1>4, <1>b DEF ReadMeta, Unclean, GoTo
  <2> QED BY <1>0, <1>c, <1>d, <1>e, <2>1, <2>2 DEF Apart
<1>5. CASE Removed
  BY <1>0, <1>5 DEF Removed, At
<1>6. CASE (\E how \in {"plain", "delete", "workspace"} : Kill(how)) \/ KillSends
  BY <1>0, <1>6 DEF Kill, KillSends
<1>7. CASE Survey
  <2>1. wire' = Append(wire, "survey") /\ UNCHANGED <<shell, busy, hangup, cached, call, inbox>>
    BY <1>7 DEF Survey, managerVars, daemonVars
  <2> QED BY <1>0, <1>a, <1>d, <1>e, <2>1, RequestUnderWay DEF Apart
<1>8. ASSUME NEW m \in {"has", "hasnt"}, Listed(m) PROVE LostInv'
  <2>1. Receive(m) /\ UNCHANGED <<shell, busy, hangup>> /\ Decide(m = "has")
        /\ (m = "hasnt" => ~cached')
    BY <1>8 DEF Listed, daemonVars
  <2>2. Coming(m) /\ \A x : Coming(x)' => Coming(x)
    BY <2>1, ReceiveComing
  <2>3. CASE hangup
    <3>1. call'.pc \in {"create", "meta"}
      BY <1>b, <2>1, DecideLost DEF SendCreate, GoTo
    <3> QED BY <1>0, <1>e, <2>1, <2>2, <2>3, <3>1
  <2>4. CASE ~hangup
    <3>1. m = "hasnt"
      BY <1>0, <2>2, <2>4 DEF Apart
    <3>2. call'.pc = "meta" /\ UNCHANGED wire
      BY <1>b, <2>1, <3>1, DecideLost DEF GoTo
    <3> QED BY <1>0, <1>c, <1>e, <2>1, <2>2, <2>4, <3>1, <3>2 DEF Apart
  <2> QED BY <2>3, <2>4
<1>9. ASSUME NEW m \in {"seen", "unseen"}, Surveyed(m) PROVE LostInv'
  <2>1. Receive(m) /\ UNCHANGED <<shell, busy, hangup, call, wire>>
        /\ (m = "unseen" => ~cached')
    BY <1>9 DEF Surveyed, daemonVars
  <2>2. Coming(m) /\ \A x : Coming(x)' => Coming(x)
    BY <2>1, ReceiveComing
  <2> QED BY <1>0, <1>c, <1>e, <2>1, <2>2 DEF Apart
<1>10. CASE Created
  <2>1. Receive("created") /\ UNCHANGED <<shell, busy, hangup>> /\ call' = Idle
    BY <1>10 DEF Created, daemonVars
  <2>2. Coming("created") /\ \A x : Coming(x)' => Coming(x)
    BY <2>1, ReceiveComing
  <2> QED BY <1>0, <1>e, <1>f, <2>1, <2>2 DEF Apart
<1>11. CASE Refused
  <2>1. Receive("refused") /\ UNCHANGED <<shell, busy, hangup, cached, wire>> /\ call' = Idle
    BY <1>11 DEF Refused, daemonVars
  <2>2. \A x : Coming(x)' => Coming(x)
    BY <2>1, ReceiveComing
  <2> QED BY <1>0, <1>c, <1>e, <1>f, <2>1, <2>2 DEF Apart
<1>12. CASE Exit
  BY <1>0, <1>12, ReceiveComing DEF Exit
<1>13. CASE Disconnected
  <2>1. /\ ~cached' /\ UNCHANGED <<shell, busy>>
        /\ \A x : ~Coming(x)' /\ ~UnderWay(x)'
    BY <1>13, NothingUnderWay DEF Disconnected, Forgotten, daemonVars
  <2>2. call'.pc \notin {"discard", "rm", "create"}
    BY <1>0, <1>13, <1>b, <1>f DEF Disconnected, GoTo
  <2> QED BY <1>0, <1>e, <2>1, <2>2 DEF Apart
<1>14. CASE HandleList
  <2>1. Arrives("list") /\ Send("hasnt") /\ UNCHANGED <<shell, busy, hangup, cached, call>>
    BY <1>0, <1>14 DEF HandleList, managerVars, daemonVars
  <2>2. \A x : UnderWay(x)' => UnderWay(x)
    BY <2>1, ArrivesUnderWay
  <2>3. \A x : Coming(x)' => Coming(x) \/ x = "hasnt"
    BY <2>1, <1>a, SendComing
  <2> QED BY <1>0, <1>e, <2>1, <2>2, <2>3 DEF Apart
<1>15. CASE HandleSurvey
  <2>1. Arrives("survey") /\ Send("unseen") /\ UNCHANGED <<shell, busy, hangup, cached, call>>
    BY <1>0, <1>15 DEF HandleSurvey, managerVars, daemonVars
  <2>2. \A x : UnderWay(x)' => UnderWay(x)
    BY <2>1, ArrivesUnderWay
  <2>3. \A x : Coming(x)' => Coming(x) \/ x = "unseen"
    BY <2>1, <1>a, SendComing
  <2> QED BY <1>0, <1>e, <2>1, <2>2, <2>3 DEF Apart
<1>16. CASE HandleCreate
  <2>1. UnderWay("create") /\ ~hangup
    BY <1>16, ArrivesUnderWay, ArrivesFirst DEF HandleCreate
  <2> QED BY <1>0, <2>1 DEF Apart
<1>17. CASE HandleKill
  <2>1. Arrives("kill") /\ UNCHANGED <<shell, busy, hangup, cached, call, inbox>>
    BY <1>0, <1>17 DEF HandleKill, managerVars
  <2>2. \A x : UnderWay(x)' => UnderWay(x)
    BY <2>1, ArrivesUnderWay
  <2> QED BY <1>0, <1>d, <1>e, <2>1, <2>2 DEF Apart
<1>18. ~Spawned /\ ~SpawnFails /\ ~Attached /\ ~ShellExits
  BY <1>0 DEF Spawned, SpawnFails, Attached, ShellExits
<1>19. CASE ManagerCrash
  <2>1. /\ ~cached' /\ call' = Idle /\ inbox' = << >> /\ UNCHANGED <<shell, busy>>
        /\ wire' = << >> \/ (UNCHANGED wire /\ ~hangup)
    BY <1>19 DEF ManagerCrash, daemonVars
  <2>2. ~UnderWay("create")'
    BY <1>0, <1>c, <2>1, NothingUnderWay DEF Apart
  <2> QED BY <1>0, <1>e, <1>f, <2>1, <2>2, NothingUnderWay DEF Apart
<1> QED BY <1>1, <1>2, <1>3, <1>4, <1>5, <1>6, <1>7, <1>8, <1>9, <1>10, <1>11, <1>12, <1>13,
           <1>14, <1>15, <1>16, <1>17, <1>18, <1>19 DEF Next, vars, managerVars, daemonVars, Remove,
      Acknowledge, Forget, Fill, Install, MarkEnded, ClearedOutput, ManagerStarts

-----------------------------------------------------------------------------
(* The properties *)

\* The first is for a lost shell, the second for a closed history.
OfferInv ==
  /\ TypeOK /\ ChannelInv /\ ViewInv
  /\ WriterInv /\ LiveInv /\ KeptInv /\ LostInv

RestoreInv ==
  /\ TypeOK /\ ChannelInv /\ ViewInv
  /\ WriterInv /\ ExitInv /\ OverInv

LEMMA InvInit == Init => OfferInv /\ RestoreInv
<1> SUFFICES ASSUME Init PROVE OfferInv /\ RestoreInv
  OBVIOUS
<1>1. TypeOK
  BY TypeInit
<1>2. \A w \in Writers : phase[w].at = "free"
  BY DEF Init, Free
<1>3. Len(wire) = 0 /\ Len(inbox) = 0
  BY DEF Init
<1>4. \A x : ~Coming(x) /\ ~UnderWay(x)
  BY DEF Init, Coming, UnderWay
<1>5. ChannelInv
  BY <1>4, EmptySingle DEF Init, ChannelInv, DownInv, DaemonInv, SingleInv, AwaitInv
<1>6. ViewInv
  BY <1>3 DEF Init, Idle, ViewInv, CacheInv, NewsInv, CallInv, Unknown
<1>7. WriterInv /\ ExitInv /\ LiveInv
  BY <1>2, <1>3, <1>4 DEF Init, WriterInv, ExitInv, ExitsFirst, LiveInv
<1>8. OverInv /\ KeptInv /\ LostInv
  BY <1>2 DEF Init, OverInv, KeptInv, LostInv
<1> QED BY <1>1, <1>5, <1>6, <1>7, <1>8 DEF OfferInv, RestoreInv

LEMMA RestoreInvariant == Assumed => (Spec => []RestoreInv)
<1>1. ASSUME Assumed, RestoreInv, [Next]_vars PROVE RestoreInv'
  BY <1>1, TypeStep, ChannelStep, ViewStep, WriterStep, ExitStep, OverStep
     DEF RestoreInv, Assumed, Orderly
<1>2. SUFFICES ASSUME Assumed PROVE Spec => []RestoreInv
  OBVIOUS
<1>3. RestoreInv /\ [Next]_vars => RestoreInv'
  BY <1>1, <1>2
<1>4. Init => RestoreInv
  BY InvInit
<1> QED BY <1>3, <1>4, PTL DEF Spec

LEMMA OfferInvariant == Orderly => (Spec => []OfferInv)
<1>1. ASSUME Orderly, OfferInv, [Next]_vars PROVE OfferInv'
  BY <1>1, TypeStep, ChannelStep, ViewStep, WriterStep, LiveStep, KeptStep, LostStep
     DEF OfferInv, Orderly
<1>2. SUFFICES ASSUME Orderly PROVE Spec => []OfferInv
  OBVIOUS
<1>3. OfferInv /\ [Next]_vars => OfferInv'
  BY <1>1, <1>2
<1>4. Init => OfferInv
  BY InvInit
<1> QED BY <1>3, <1>4, PTL DEF Spec

\* A cold restore that is on offer is of a pane with no shell that is live and not to
\* be killed: daemonAliveSessionIds, the listings and the exit events agree on that,
\* whatever the disk does and whenever a shell ends.
THEOREM OfferIsSound == OneOrder => (Spec => [](restore => ~Wanted))
<1>1. ASSUME OneOrder, TypeOK, ChannelInv, ViewInv, [Next]_vars
      PROVE  (TypeOK /\ ChannelInv /\ ViewInv)'
  BY <1>1, TypeStep, ChannelStep, ViewStep
<1>2. SUFFICES ASSUME OneOrder PROVE Spec => [](restore => ~Wanted)
  OBVIOUS
<1>3. TypeOK /\ ChannelInv /\ ViewInv /\ [Next]_vars => (TypeOK /\ ChannelInv /\ ViewInv)'
  BY <1>1, <1>2
<1>4. Init => TypeOK /\ ChannelInv /\ ViewInv
  BY InvInit DEF OfferInv
<1>5. TypeOK /\ ChannelInv /\ ViewInv => (restore => ~Wanted)
  BY DEF ViewInv, CallInv, Unknown, Wanted
<1> QED BY <1>3, <1>4, <1>5, PTL DEF Spec

\* A cold restore is offered only where no shell is live that is not to be killed, and
\* is decided on only where the files are not of a shell whose history was closed.
THEOREM RestoreIsSound == Assumed => (Spec => RestoreSound)
<1>1. ASSUME Assumed, RestoreInv, RestoreInv', [Next]_vars
      PROVE  [/\ restore' => shell' # "live" \/ shells' \in unwanted'
              /\ call.pc = "meta" /\ call'.pc = "scroll" => scrollback \notin over]_vars
  <2>1. restore' => shell' # "live" \/ shells' \in unwanted'
    BY <1>1 DEF RestoreInv, ViewInv, CallInv, Unknown
  <2>2. ASSUME call.pc = "meta", call'.pc = "scroll" PROVE scrollback \notin over
    <3>1. ReadMeta
      <4>1. call \in [pc : Stage, skip : BOOLEAN]
        BY <1>1 DEF RestoreInv, TypeOK
      <4> QED BY <1>1, <2>2, <4>1 DEF Next, vars, managerVars, At, GoTo, SendCreate, Idle, Decide,
            Call, Sticky, Permit, ReadScrollback, Remove, Removed, Acknowledge, Kill, KillSends,
            Survey, Listed, Surveyed, Created, Refused, Exit, Forget, Disconnected, Fill, Install,
            MarkEnded, ClearedOutput, HandleSurvey, HandleList, HandleCreate, HandleKill, Spawned,
            SpawnFails, Attached, ShellExits, DaemonCrash, ManagerCrash, ManagerStarts
    <3>2. meta = "open" /\ ~Closing
      <4>1. ~Closing
        BY <1>1, <3>1 DEF ReadMeta, Settled, Assumed, Orderly
      <4>2. meta = "open"
        BY <1>1, <2>2, <3>1 DEF ReadMeta, SendCreate, GoTo, Unclean, RestoreInv, TypeOK
      <4> QED BY <4>1, <4>2
    <3> QED BY <1>1, <3>2 DEF RestoreInv, OverInv, Closing
  <2> QED BY <2>1, <2>2
<1>2. SUFFICES ASSUME Assumed PROVE Spec => RestoreSound
  OBVIOUS
<1>3. RestoreInv /\ RestoreInv' /\ [Next]_vars =>
        [/\ restore' => shell' # "live" \/ shells' \in unwanted'
         /\ call.pc = "meta" /\ call'.pc = "scroll" => scrollback \notin over]_vars
  BY <1>1, <1>2
<1>4. Spec => []RestoreInv
  BY <1>2, RestoreInvariant
<1> QED BY <1>3, <1>4, PTL DEF Spec, RestoreSound

\* Where the daemon's crash has cut off a shell whose history was kept, no other shell
\* is started until the user asks for one.  A shell may end, or be killed, at any time,
\* while its history is being set up as well.
THEOREM LostIsOffered == Orderly => (Spec => NoShellBehindRestore)
<1>1. SUFFICES ASSUME Orderly PROVE Spec => NoShellBehindRestore
  OBVIOUS
<1>2. OfferInv /\ [Next]_vars => [shells' > shells => lost = 0]_vars
  <2> SUFFICES ASSUME OfferInv, [Next]_vars, shells' > shells PROVE lost = 0
    OBVIOUS
  <2>1. Spawned
    <3>1. shells \in Nat
      BY WantedStep DEF OfferInv
    <3> QED BY <3>1, ShellStep DEF OfferInv
  <2> QED BY <2>1 DEF Spawned, OfferInv, LostInv
<1>3. Spec => []OfferInv
  BY <1>1, OfferInvariant
<1> QED BY <1>2, <1>3, PTL DEF Spec, NoShellBehindRestore

=============================================================================
