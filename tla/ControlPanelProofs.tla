------------------------- MODULE ControlPanelProofs -------------------------
(***************************************************************************)
(* Live reload for every set of pages and any number of connections and    *)
(* changes of the files.                                                   *)
(***************************************************************************)
EXTENDS ControlPanel, TLAPS

(* Nothing has happened yet to a session that has not started, and a page  *)
(* starts its sessions in their order.                                     *)
Fresh ==
    \A s \in Sessions :
        /\ s[2] > page[PageOf(s)].count => session[s].state = "none"
        /\ session[s].state = "none" =>
              /\ session[s].id = Unanswered /\ ~session[s].answered
              /\ session[s].inbox = <<>> /\ s \notin sessions

(* A session knows its own id, or none. *)
OwnId == \A s \in Sessions : session[s].id \in {Unanswered, s}

(* A Connect in the mailbox is the only one of its session, which has not  *)
(* been answered and is not in the table.                                  *)
Asked ==
    \A i \in 1..Len(mailbox) : mailbox[i][1] = "connect" =>
        LET s == mailbox[i][2]
        IN  /\ s \in Sessions /\ session[s].state # "none"
            /\ session[s].id = Unanswered /\ ~session[s].answered
            /\ session[s].inbox = <<>> /\ s \notin sessions
            /\ \A j \in 1..Len(mailbox) : mailbox[j] = mailbox[i] => j = i

(* The session of a page stays as long as the page does. *)
Alive == \A s \in Sessions : Shown(s) => session[s].state \in {"waiting", "open"}

(* What the channel has to offer is newer than what was received, but for  *)
(* the empty path in the beginning.                                        *)
Newer ==
    unseen => \/ channel > received
              \/ received = 0 /\ \A s \in Sessions : session[s].inbox = <<>>
Received ==
    \A s \in Sessions : \A i \in 1..Len(session[s].inbox) :
        session[s].inbox[i] <= received

Inv ==
    /\ TypeOK /\ Fresh /\ OwnId /\ Asked /\ GhostsWereUnanswered
    /\ Alive /\ Newer /\ Received /\ ToldOfEverything

-----------------------------------------------------------------------------
(* Sessions and mailboxes.                                                 *)

\* A session is a page and the number of its connection.
LEMMA SessionParts ==
    ASSUME NEW s \in Sessions
    PROVE  /\ s = <<s[1], s[2]>> /\ PageOf(s) \in Pages
           /\ s[2] \in 1..MaxConnections[PageOf(s)] /\ s[2] \in Nat
<1>1. PICK p \in Pages : s \in {p} \X (1..MaxConnections[p])
  BY DEF Sessions
<1>2. MaxConnections[p] \in Nat
  BY BoundsAssumption
<1> QED
  BY <1>1, <1>2 DEF PageOf

\* Every connection a page may make has its session.
LEMMA SessionMade ==
    ASSUME NEW p \in Pages, NEW n \in 1..MaxConnections[p]
    PROVE  /\ <<p, n>> \in Sessions
           /\ PageOf(<<p, n>>) = p
  BY DEF Sessions, PageOf

\* What is in a mailbox.
LEMMA ElementOf ==
    ASSUME NEW S, NEW q \in Seq(S) PROVE \A i \in 1..Len(q) : q[i] \in S
  OBVIOUS

\* What is left of a mailbox.
LEMMA TailOf ==
    ASSUME NEW S, NEW q \in Seq(S), q # <<>>
    PROVE  /\ Head(q) = q[1] /\ q[1] \in S /\ Tail(q) \in Seq(S)
           /\ Len(q) \in Nat \ {0} /\ Len(Tail(q)) = Len(q) - 1
           /\ \A i \in 1..Len(Tail(q)) : Tail(q)[i] = q[i + 1]
  OBVIOUS

\* What a mailbox becomes.
LEMMA AppendTo ==
    ASSUME NEW S, NEW q \in Seq(S), NEW e \in S
    PROVE  /\ Append(q, e) \in Seq(S) /\ Len(q) \in Nat
           /\ Len(Append(q, e)) = Len(q) + 1
           /\ Append(q, e)[Len(q) + 1] = e
           /\ \A i \in 1..Len(q) : Append(q, e)[i] = q[i]
  OBVIOUS

-----------------------------------------------------------------------------
(* The invariant.                                                          *)

\* It holds in the beginning.
LEMMA InitInv == Init => Inv
<1> SUFFICES ASSUME Init PROVE Inv
  OBVIOUS
<1>1. TypeOK
  BY BoundsAssumption DEF Init, TypeOK
<1>2. Fresh /\ OwnId /\ Asked /\ GhostsWereUnanswered /\ Newer /\ Received
  BY DEF Init, Fresh, OwnId, Asked, GhostsWereUnanswered, Newer, Received
<1>3. Alive /\ ToldOfEverything
  BY SessionParts DEF Init, Alive, ToldOfEverything, Shown
<1> QED
  BY <1>1, <1>2, <1>3 DEF Inv

\* What TypeOK says of the numbers.
LEMMA Numbers ==
    ASSUME TypeOK
    PROVE  /\ MaxChanges \in Nat /\ files \in Nat /\ channel \in Nat /\ received \in Nat
           /\ received <= channel /\ channel <= files /\ files <= MaxChanges
  BY BoundsAssumption DEF TypeOK

\* What TypeOK says of one session and the paths in its mailbox.
LEMMA SessionType ==
    ASSUME TypeOK, NEW s \in Sessions
    PROVE  /\ session[s].state \in {"none", "waiting", "open", "stopped"}
           /\ session[s].inbox \in Seq(0..MaxChanges)
           /\ \A i \in 1..Len(session[s].inbox) :
                session[s].inbox[i] \in Nat /\ session[s].inbox[i] <= MaxChanges
<1>1. session[s].inbox \in Seq(0..MaxChanges)
  BY DEF TypeOK
<1>2. \A i \in 1..Len(session[s].inbox) : session[s].inbox[i] \in 0..MaxChanges
  BY <1>1, ElementOf
<1>3. \A n \in 0..MaxChanges : n \in Nat /\ n <= MaxChanges
  BY BoundsAssumption
<1> QED
  BY <1>1, <1>2, <1>3 DEF TypeOK

\* Files change, and the watcher broadcasts.
LEMMA WatcherInv == ASSUME Inv, FileChanges \/ Broadcast PROVE Inv'
<1> USE Numbers DEF Inv
<1>1. files' \in 0..MaxChanges /\ channel' \in 0..files' /\ received' \in 0..channel'
  BY DEF FileChanges, Broadcast
<1>2. UNCHANGED <<mailbox, sessions, session, page, received>> /\ unseen' \in BOOLEAN
  BY DEF FileChanges, Broadcast, TypeOK
<1>3. TypeOK'
  BY <1>1, <1>2, Zenon DEF TypeOK
<1>4. (Fresh /\ OwnId /\ Asked /\ GhostsWereUnanswered /\ Alive /\ Received)'
  BY <1>2, ZenonT(60) DEF Fresh, OwnId, Asked, GhostsWereUnanswered, Alive, Received, Shown
<1>5. Newer'
  <2>1. CASE FileChanges
    BY <2>1 DEF FileChanges, Newer
  <2>2. CASE Broadcast
    BY <2>2 DEF Broadcast, Newer
  <2> QED
    BY <2>1, <2>2
<1>6. ToldOfEverything'
  BY <1>2 DEF ToldOfEverything, Shown
<1> QED
  BY <1>3, <1>4, <1>5, <1>6

\* The newest path goes to every session of the table.
LEMMA ReceiveInv == ASSUME Inv, Receive PROVE Inv'
<1>1. channel \in 0..MaxChanges /\ channel \in Nat /\ received \in Nat /\ received <= channel
  BY Numbers DEF Inv
<1>2. ASSUME NEW s \in Sessions
      PROVE  /\ session'[s].state = session[s].state /\ session'[s].id = session[s].id
             /\ session'[s].answered = session[s].answered
             /\ session'[s].joinedAt = session[s].joinedAt
             /\ session[s].inbox \in Seq(0..MaxChanges)
             /\ session'[s].inbox = IF Listening(s) THEN Append(session[s].inbox, channel)
                                                   ELSE session[s].inbox
  BY DEF Inv, TypeOK, Receive
<1>3. TypeOK'
  <2> DEFINE T == [state : {"none", "waiting", "open", "stopped"},
                   id : Sessions \cup {Unanswered}, answered : BOOLEAN,
                   inbox : Seq(0..MaxChanges), joinedAt : 0..MaxChanges]
  <2>1. ASSUME NEW s \in Sessions
        PROVE  [session[s] EXCEPT !.inbox = Append(@, channel)] \in T
    <3>1. session[s] \in T
      BY DEF Inv, TypeOK
    <3>2. Append(session[s].inbox, channel) \in Seq(0..MaxChanges)
      BY <1>1, <1>2, AppendTo
    <3> QED
      BY <3>1, <3>2
  <2>2. session' \in [Sessions -> T]
    <3>1. session \in [Sessions -> T]
      BY DEF Inv, TypeOK
    <3> HIDE DEF T
    <3> QED
      BY <2>1, <3>1 DEF Receive
  <2>3. received' \in 0..channel'
    BY <1>1 DEF Receive
  <2> QED
    BY <2>2, <2>3, Zenon DEF Inv, TypeOK, Receive
<1>4. (Fresh /\ OwnId /\ GhostsWereUnanswered /\ Alive)'
  BY <1>2, ZenonT(60) DEF Inv, Receive, Fresh, OwnId, GhostsWereUnanswered, Alive, Shown,
                       Listening, TypeOK
<1>5. Asked'
  BY <1>2 DEF Inv, Receive, Asked, Listening
<1>6. Newer'
  BY DEF Receive, Newer
<1>7. Received'
  <2> SUFFICES ASSUME NEW s \in Sessions, NEW i \in 1..Len(session'[s].inbox)
               PROVE  session'[s].inbox[i] <= channel
    BY DEF Received, Receive
  <2>1. \A j \in 1..Len(session[s].inbox) :
          session[s].inbox[j] \in Nat /\ session[s].inbox[j] <= received
    BY SessionType DEF Inv, Received
  <2>2. CASE Listening(s)
    <3> DEFINE old == session[s].inbox
    <3>1. session'[s].inbox = Append(old, channel) /\ old \in Seq(0..MaxChanges)
      BY <1>2, <2>2
    <3>2. i = Len(old) + 1 \/ i \in 1..Len(old)
      BY <3>1
    <3>3. Append(old, channel)[Len(old) + 1] = channel
          /\ \A j \in 1..Len(old) : Append(old, channel)[j] = old[j]
      BY <3>1
    <3> QED
      BY <2>1, <3>1, <3>2, <3>3, <1>1
  <2>3. CASE ~Listening(s)
    <3>1. session'[s].inbox = session[s].inbox
      BY <1>2, <2>3
    <3> QED
      BY <2>1, <3>1, <1>1
  <2> QED
    BY <2>2, <2>3
<1>8. ToldOfEverything'
  <2> SUFFICES ASSUME NEW s \in Sessions, Shown(s), s \in sessions
               PROVE  LET inbox == session'[s].inbox
                      IN  /\ inbox # <<>> /\ inbox[Len(inbox)] = channel
                          /\ \A i \in 1..(Len(inbox) - 1) : inbox[i] < inbox[i + 1]
    BY DEF ToldOfEverything, Receive, Shown
  <2> DEFINE old == session[s].inbox
  <2>1. session'[s].inbox = Append(old, channel) /\ old \in Seq(0..MaxChanges)
    BY <1>2 DEF Inv, Alive, Listening
  <2>2. \A i \in 1..(Len(old) - 1) : old[i] < old[i + 1]
    BY DEF Inv, ToldOfEverything
  <2>3. \A i \in 1..Len(old) : old[i] \in Nat /\ old[i] <= received
    BY SessionType DEF Inv, Received
  <2>4. old = <<>> \/ received < channel
    BY <1>1 DEF Inv, Newer, Receive
  <2> QED
    BY <2>1, <2>2, <2>3, <2>4, <1>1
<1> QED
  BY <1>3, <1>4, <1>5, <1>6, <1>7, <1>8 DEF Inv

\* The server registers a session.
LEMMA ConnectedInv == ASSUME Inv, HandleConnect PROVE Inv'
<1> DEFINE s0 == mailbox[1][2]
           Mail == {"connect", "disconnect"} \X (Sessions \cup {Unanswered})
<1>1. /\ mailbox \in Seq(Mail) /\ mailbox # <<>> /\ mailbox[1][1] = "connect"
      /\ mailbox' = Tail(mailbox) /\ Tail(mailbox) \in Seq(Mail)
      /\ Len(mailbox) \in Nat \ {0} /\ Len(mailbox') = Len(mailbox) - 1
      /\ \A i \in 1..Len(mailbox') : mailbox'[i] = mailbox[i + 1]
      /\ s0 = Head(mailbox)[2]
  <2>1. mailbox \in Seq(Mail) /\ mailbox # <<>> /\ mailbox' = Tail(mailbox)
        /\ Head(mailbox)[1] = "connect"
    BY DEF Inv, TypeOK, HandleConnect
  <2> HIDE DEF Mail
  <2> QED
    BY <2>1, TailOf
<1>2. /\ s0 \in Sessions /\ session[s0].state # "none" /\ session[s0].id = Unanswered
      /\ ~session[s0].answered /\ session[s0].inbox = <<>> /\ s0 \notin sessions
      /\ \A j \in 1..Len(mailbox) : mailbox[j] = mailbox[1] => j = 1
  <2>1. 1 \in 1..Len(mailbox)
    BY <1>1
  <2> QED
    BY <1>1, <2>1 DEF Inv, Asked
<1>3. /\ sessions' = sessions \cup {s0}
      /\ session' = [session EXCEPT ![s0].answered = TRUE, ![s0].joinedAt = received]
      /\ UNCHANGED <<files, channel, received, unseen, page>>
  BY <1>1 DEF HandleConnect
<1>4. ASSUME NEW s \in Sessions
      PROVE  /\ session'[s].state = session[s].state /\ session'[s].id = session[s].id
             /\ session'[s].inbox = session[s].inbox
             /\ s # s0 => session'[s] = session[s]
             /\ s = s0 => session'[s].joinedAt = received
  BY <1>2, <1>3 DEF Inv, TypeOK
<1>5. TypeOK'
  <2>1. received \in 0..MaxChanges
    BY Numbers DEF Inv
  <2> DEFINE T == [state : {"none", "waiting", "open", "stopped"},
                   id : Sessions \cup {Unanswered}, answered : BOOLEAN,
                   inbox : Seq(0..MaxChanges), joinedAt : 0..MaxChanges]
  <2>2. session' \in [Sessions -> T]
    <3>1. session \in [Sessions -> T]
      BY DEF Inv, TypeOK
    <3>2. [session[s0] EXCEPT !.answered = TRUE, !.joinedAt = received] \in T
      <4>1. session[s0] \in T
        BY <1>2, <3>1, Zenon
      <4>2. [session[s0] EXCEPT !.answered = TRUE] \in T
        BY <4>1
      <4> QED
        BY <2>1, <4>1, <4>2
    <3>3. session' = [session EXCEPT ![s0] =
                        [session[s0] EXCEPT !.answered = TRUE, !.joinedAt = received]]
      BY <1>2, <1>3, <3>1
    <3> HIDE DEF T
    <3> QED
      BY <1>2, <3>1, <3>2, <3>3
  <2> QED
    BY <1>1, <1>2, <1>3, <2>2 DEF Inv, TypeOK
<1>6. (Fresh /\ OwnId /\ Alive /\ Received)'
  <2>1. Fresh'
    BY <1>2, <1>3, <1>4, ZenonT(60) DEF Inv, Fresh
  <2>2. (OwnId /\ Alive)'
    BY <1>3, <1>4 DEF Inv, OwnId, Alive, Shown
  <2>3. Received'
    BY <1>3, <1>4 DEF Inv, Received
  <2> QED
    BY <2>1, <2>2, <2>3
<1>7. Asked'
  <2> SUFFICES ASSUME NEW i \in 1..Len(mailbox'), mailbox'[i][1] = "connect"
               PROVE  LET s == mailbox'[i][2]
                      IN  /\ s \in Sessions /\ session'[s].state # "none"
                          /\ session'[s].id = Unanswered /\ ~session'[s].answered
                          /\ session'[s].inbox = <<>> /\ s \notin sessions'
                          /\ \A j \in 1..Len(mailbox') : mailbox'[j] = mailbox'[i] => j = i
    BY DEF Asked
  <2> DEFINE s == mailbox[i + 1][2]
  <2>1. /\ i \in Nat /\ i + 1 \in 1..Len(mailbox) /\ i + 1 # 1
        /\ mailbox'[i] = mailbox[i + 1]
    BY <1>1
  <2>2. /\ s \in Sessions /\ session[s].state # "none"
        /\ session[s].id = Unanswered /\ ~session[s].answered
        /\ session[s].inbox = <<>> /\ s \notin sessions
        /\ \A j \in 1..Len(mailbox) : mailbox[j] = mailbox[i + 1] => j = i + 1
    BY <2>1 DEF Inv, Asked
  <2>3. s # s0
    <3>1. mailbox[i + 1] \in Mail /\ mailbox[1] \in Mail
      <4> HIDE DEF Mail
      <4> QED
        BY <1>1, <2>1, ElementOf
    <3> QED
      BY <1>1, <1>2, <2>1, <3>1
  <2>4. \A j \in 1..Len(mailbox') : mailbox'[j] = mailbox'[i] => j = i
    <3> TAKE j \in 1..Len(mailbox')
    <3>1. j \in Nat /\ j + 1 \in 1..Len(mailbox) /\ mailbox'[j] = mailbox[j + 1]
      BY <1>1
    <3>2. mailbox'[j] = mailbox'[i] => j + 1 = i + 1
      BY <2>1, <2>2, <3>1
    <3> QED
      BY <2>1, <3>1, <3>2
  <2> QED
    BY <1>3, <1>4, <2>1, <2>2, <2>3, <2>4, ZenonT(60)
<1>8. GhostsWereUnanswered'
  <2> SUFFICES ASSUME NEW s \in sessions', session'[s].state = "stopped",
                      session'[s].id # Unanswered
               PROVE  \E i \in 1..Len(mailbox') : mailbox'[i] = <<"disconnect", s>>
    BY DEF GhostsWereUnanswered
  <2>1. s \in sessions /\ s \in Sessions
    BY <1>2, <1>3, <1>4 DEF Inv, TypeOK
  <2>2. PICK i \in 1..Len(mailbox) : mailbox[i] = <<"disconnect", s>>
    BY <1>4, <2>1 DEF Inv, GhostsWereUnanswered
  <2>3. i # 1 /\ i - 1 \in 1..Len(mailbox') /\ mailbox'[i - 1] = mailbox[i]
    BY <1>1, <2>2
  <2> QED
    BY <2>2, <2>3
<1>9. Newer'
  BY <1>3, <1>4 DEF Inv, Newer
<1>10. ToldOfEverything'
  <2> SUFFICES ASSUME NEW s \in Sessions, Shown(s), s \in sessions'
               PROVE  LET inbox == session'[s].inbox
                      IN  /\ received # session'[s].joinedAt =>
                                inbox # <<>> /\ inbox[Len(inbox)] = received
                          /\ \A i \in 1..(Len(inbox) - 1) : inbox[i] < inbox[i + 1]
    BY <1>3 DEF ToldOfEverything, Shown
  <2>1. CASE s = s0
    BY <1>2, <1>4, <2>1
  <2>2. CASE s # s0
    BY <1>3, <1>4, <2>2 DEF Inv, ToldOfEverything
  <2> QED
    BY <2>1, <2>2
<1> QED
  BY <1>5, <1>6, <1>7, <1>8, <1>9, <1>10 DEF Inv

\* The server removes the session that a Disconnect names.
LEMMA DisconnectedInv == ASSUME Inv, HandleDisconnect PROVE Inv'
<1> DEFINE Mail == {"connect", "disconnect"} \X (Sessions \cup {Unanswered})
<1>1. /\ mailbox \in Seq(Mail) /\ mailbox # <<>> /\ mailbox[1][1] = "disconnect"
      /\ mailbox' = Tail(mailbox) /\ Tail(mailbox) \in Seq(Mail)
      /\ Len(mailbox) \in Nat \ {0} /\ Len(mailbox') = Len(mailbox) - 1
      /\ \A i \in 1..Len(mailbox') : mailbox'[i] = mailbox[i + 1]
      /\ Head(mailbox) = mailbox[1]
  <2>1. mailbox \in Seq(Mail) /\ mailbox # <<>> /\ mailbox' = Tail(mailbox)
        /\ Head(mailbox)[1] = "disconnect"
    BY DEF Inv, TypeOK, HandleDisconnect
  <2> HIDE DEF Mail
  <2> QED
    BY <2>1, TailOf
<1>2. /\ sessions' = sessions \ {mailbox[1][2]}
      /\ UNCHANGED <<files, channel, received, unseen, session, page>>
  BY <1>1 DEF HandleDisconnect
<1>3. TypeOK'
  BY <1>1, <1>2 DEF Inv, TypeOK
<1>4. (Fresh /\ OwnId /\ Alive /\ Received /\ Newer /\ ToldOfEverything)'
  BY <1>2 DEF Inv, Fresh, OwnId, Alive, Received, Newer, ToldOfEverything, Shown
<1>5. Asked'
  <2> SUFFICES ASSUME NEW i \in 1..Len(mailbox'), mailbox'[i][1] = "connect"
               PROVE  LET s == mailbox'[i][2]
                      IN  /\ s \in Sessions /\ session'[s].state # "none"
                          /\ session'[s].id = Unanswered /\ ~session'[s].answered
                          /\ session'[s].inbox = <<>> /\ s \notin sessions'
                          /\ \A j \in 1..Len(mailbox') : mailbox'[j] = mailbox'[i] => j = i
    BY DEF Asked
  <2>1. i \in Nat /\ i + 1 \in 1..Len(mailbox) /\ mailbox'[i] = mailbox[i + 1]
    BY <1>1
  <2>2. LET s == mailbox[i + 1][2]
        IN  /\ s \in Sessions /\ session[s].state # "none"
            /\ session[s].id = Unanswered /\ ~session[s].answered
            /\ session[s].inbox = <<>> /\ s \notin sessions
            /\ \A j \in 1..Len(mailbox) : mailbox[j] = mailbox[i + 1] => j = i + 1
    BY <2>1 DEF Inv, Asked
  <2>3. \A j \in 1..Len(mailbox') : mailbox'[j] = mailbox'[i] => j = i
    <3> TAKE j \in 1..Len(mailbox')
    <3>1. j \in Nat /\ j + 1 \in 1..Len(mailbox) /\ mailbox'[j] = mailbox[j + 1]
      BY <1>1
    <3>2. mailbox'[j] = mailbox'[i] => j + 1 = i + 1
      BY <2>1, <2>2, <3>1
    <3> QED
      BY <2>1, <3>1, <3>2
  <2> QED
    BY <1>2, <2>1, <2>2, <2>3
<1>6. GhostsWereUnanswered'
  <2> SUFFICES ASSUME NEW s \in sessions', session[s].state = "stopped",
                      session[s].id # Unanswered
               PROVE  \E i \in 1..Len(mailbox') : mailbox'[i] = <<"disconnect", s>>
    BY <1>2 DEF GhostsWereUnanswered
  <2>1. PICK i \in 1..Len(mailbox) : mailbox[i] = <<"disconnect", s>>
    BY <1>2 DEF Inv, GhostsWereUnanswered
  <2>2. i # 1 /\ i - 1 \in 1..Len(mailbox') /\ mailbox'[i - 1] = mailbox[i]
    BY <1>1, <1>2, <2>1
  <2> QED
    BY <2>1, <2>2
<1> QED
  BY <1>3, <1>4, <1>5, <1>6 DEF Inv

-----------------------------------------------------------------------------
(* The sessions and the pages.                                             *)

SessionRecord ==
    [state : {"none", "waiting", "open", "stopped"},
     id : Sessions \cup {Unanswered}, answered : BOOLEAN,
     inbox : Seq(0..MaxChanges), joinedAt : 0..MaxChanges]
Letters == {"connect", "disconnect"} \X (Sessions \cup {Unanswered})

\* A step of one session leaves the others alone.
LEMMA SetSession ==
    ASSUME TypeOK, NEW s \in Sessions, NEW r \in SessionRecord,
           session' = [session EXCEPT ![s] = r]
    PROVE  /\ session' \in [Sessions -> SessionRecord] /\ session'[s] = r
           /\ \A t \in Sessions \ {s} : session'[t] = session[t]
<1>1. session \in [Sessions -> SessionRecord]
  BY Zenon DEF TypeOK, SessionRecord
<1> QED
  BY <1>1

\* A letter is put at the end of the mailbox.
LEMMA SendLetter ==
    ASSUME TypeOK, NEW e \in Letters, mailbox' = Append(mailbox, e)
    PROVE  /\ mailbox \in Seq(Letters) /\ mailbox' \in Seq(Letters)
           /\ Len(mailbox) \in Nat /\ Len(mailbox') = Len(mailbox) + 1
           /\ mailbox'[Len(mailbox')] = e
           /\ \A i \in 1..Len(mailbox) : mailbox'[i] = mailbox[i]
           /\ \A i \in 1..Len(mailbox') : i = Len(mailbox') \/ i \in 1..Len(mailbox)
<1>1. mailbox \in Seq(Letters)
  BY Zenon DEF TypeOK, Letters
<1>2. /\ mailbox' \in Seq(Letters) /\ Len(mailbox) \in Nat
      /\ Len(mailbox') = Len(mailbox) + 1
      /\ mailbox'[Len(mailbox) + 1] = e
      /\ \A i \in 1..Len(mailbox) : mailbox'[i] = mailbox[i]
  BY <1>1, AppendTo
<1> QED
  BY <1>1, <1>2

\* A session gets the answer to its Connect.
LEMMA AnswerInv == ASSUME Inv, NEW s \in Sessions, Answer(s) PROVE Inv'
<1> DEFINE r == [session[s] EXCEPT !.state = "open", !.id = s]
<1>1. session[s] \in SessionRecord /\ session[s].state = "waiting" /\ session[s].answered
  <2>1. session \in [Sessions -> SessionRecord]
    BY Zenon DEF Inv, TypeOK, SessionRecord
  <2> QED
    BY <2>1 DEF Answer
<1>2. /\ r \in SessionRecord /\ r.state = "open" /\ r.id = s /\ r.answered
      /\ r.inbox = session[s].inbox /\ r.joinedAt = session[s].joinedAt
      /\ r.answered = session[s].answered
  BY <1>1 DEF SessionRecord
<1>3. session' = [session EXCEPT ![s] = r]
  BY <1>1 DEF Answer, Inv, TypeOK
<1>4. UNCHANGED <<files, channel, received, unseen, mailbox, sessions, page>>
  BY DEF Answer
<1> HIDE DEF r
<1>5. /\ session' \in [Sessions -> SessionRecord] /\ session'[s] = r
      /\ \A t \in Sessions \ {s} : session'[t] = session[t]
  BY <1>2, <1>3, SetSession DEF Inv
<1>6. TypeOK'
  BY <1>4, <1>5, Zenon DEF Inv, TypeOK, SessionRecord
<1>7. ASSUME NEW t \in Sessions
      PROVE  /\ session'[t].inbox = session[t].inbox
             /\ session'[t].joinedAt = session[t].joinedAt
             /\ session'[t].answered = session[t].answered
             /\ session'[t].id = session[t].id \/ (t = s /\ session'[t].id = s)
             /\ \/ t # s /\ session'[t].state = session[t].state
                \/ t = s /\ session'[t].state = "open"
  <2>1. CASE t = s
    BY <1>2, <1>5, <2>1
  <2>2. CASE t # s
    BY <1>5, <2>2
  <2> QED
    BY <2>1, <2>2
<1>8. (Fresh /\ OwnId /\ Alive)'
  BY <1>1, <1>4, <1>7 DEF Inv, Fresh, OwnId, Alive, Shown
<1>9. Asked'
  BY <1>1, <1>4, <1>7 DEF Inv, Asked
<1>10. GhostsWereUnanswered'
  BY <1>4, <1>7, ZenonT(60) DEF Inv, GhostsWereUnanswered, TypeOK
<1>11. (Newer /\ Received /\ ToldOfEverything)'
  BY <1>4, <1>7 DEF Inv, Newer, Received, ToldOfEverything, Shown
<1> QED
  BY <1>6, <1>8, <1>9, <1>10, <1>11 DEF Inv

\* A session passes a message on, and its page reloads.
LEMMA MessageInv == ASSUME Inv, NEW s \in Sessions, HandleMessage(s) PROVE Inv'
<1> DEFINE old == session[s].inbox
           r == [session[s] EXCEPT !.inbox = Tail(@)]
<1>1. /\ session[s] \in SessionRecord /\ session[s].state = "open"
      /\ old \in Seq(0..MaxChanges) /\ old # <<>>
  <2>1. session \in [Sessions -> SessionRecord]
    BY Zenon DEF Inv, TypeOK, SessionRecord
  <2> QED
    BY <2>1 DEF HandleMessage, SessionRecord
<1>2. /\ Tail(old) \in Seq(0..MaxChanges) /\ Len(old) \in Nat \ {0}
      /\ Len(Tail(old)) = Len(old) - 1
      /\ \A i \in 1..Len(Tail(old)) : Tail(old)[i] = old[i + 1]
  BY <1>1, TailOf
<1>3. /\ r \in SessionRecord /\ r.inbox = Tail(old) /\ r.state = session[s].state
      /\ r.id = session[s].id /\ r.answered = session[s].answered
      /\ r.joinedAt = session[s].joinedAt
  BY <1>1, <1>2 DEF SessionRecord
<1>4. session' = [session EXCEPT ![s] = r]
  BY <1>1 DEF HandleMessage, Inv, TypeOK
<1>5. UNCHANGED <<files, channel, received, unseen, mailbox, sessions>>
  BY DEF HandleMessage
<1> HIDE DEF r
<1>6. /\ session' \in [Sessions -> SessionRecord] /\ session'[s] = r
      /\ \A t \in Sessions \ {s} : session'[t] = session[t]
  BY <1>3, <1>4, SetSession DEF Inv
<1>7. ASSUME NEW t \in Sessions
      PROVE  /\ session'[t].id = session[t].id
             /\ session'[t].joinedAt = session[t].joinedAt
             /\ session'[t].answered = session[t].answered
             /\ session'[t].state = session[t].state
             /\ t # s => session'[t].inbox = session[t].inbox
  BY <1>3, <1>6
<1>8. /\ page' \in [Pages -> [count : Nat, connected : BOOLEAN]]
      /\ \A p \in Pages : page'[p].count = page[p].count
      /\ \A t \in Sessions : Shown(t)' => Shown(t)
      /\ ~Shown(s)'
  <2>1. page \in [Pages -> [count : Nat, connected : BOOLEAN]] /\ PageOf(s) \in Pages
    BY SessionParts DEF Inv, TypeOK
  <2>2. CASE Shown(s)
    <3>1. page' = [page EXCEPT ![PageOf(s)].connected = FALSE]
      BY <2>2 DEF HandleMessage
    <3>2. /\ ~page'[PageOf(s)].connected
          /\ \A p \in Pages : page'[p].count = page[p].count
          /\ \A p \in Pages \ {PageOf(s)} : page'[p] = page[p]
      BY <2>1, <3>1
    <3>3. page' \in [Pages -> [count : Nat, connected : BOOLEAN]]
      BY <2>1, <3>1
    <3> QED
      BY <3>2, <3>3, SessionParts DEF Shown
  <2>3. CASE ~Shown(s)
    BY <2>1, <2>3 DEF HandleMessage, Shown
  <2> QED
    BY <2>2, <2>3
<1>9. TypeOK'
  BY <1>5, <1>6, <1>8, Zenon DEF Inv, TypeOK, SessionRecord
<1>10. (Fresh /\ OwnId /\ Alive)'
  <2>1. Fresh'
    BY <1>1, <1>5, <1>7, <1>8, SessionParts DEF Inv, Fresh
  <2>2. (OwnId /\ Alive)'
    BY <1>7, <1>8 DEF Inv, OwnId, Alive
  <2> QED
    BY <2>1, <2>2
<1>11. Asked'
  BY <1>1, <1>5, <1>7 DEF Inv, Asked
<1>12. GhostsWereUnanswered'
  BY <1>5, <1>7 DEF Inv, GhostsWereUnanswered, TypeOK
<1>13. (Newer /\ Received)'
  <2>1. old[1] <= received /\ \A i \in 1..Len(old) : old[i] <= received
    BY <1>2 DEF Inv, Received
  <2>2. \A i \in 1..Len(Tail(old)) : i + 1 \in 1..Len(old) /\ Tail(old)[i] <= received
    BY <1>2, <2>1
  <2>3. Received'
    BY <1>3, <1>5, <1>6, <1>7, <2>2 DEF Inv, Received
  <2>4. Newer'
    BY <1>1, <1>5, <1>7 DEF Inv, Newer
  <2> QED
    BY <2>3, <2>4
<1>14. ToldOfEverything'
  <2> SUFFICES ASSUME NEW t \in Sessions, Shown(t), t # s, t \in sessions
               PROVE  LET inbox == session[t].inbox
                      IN  /\ received # session[t].joinedAt =>
                                inbox # <<>> /\ inbox[Len(inbox)] = received
                          /\ \A i \in 1..(Len(inbox) - 1) : inbox[i] < inbox[i + 1]
    BY <1>5, <1>7, <1>8 DEF ToldOfEverything
  <2> QED
    BY DEF Inv, ToldOfEverything
<1> QED
  BY <1>9, <1>10, <1>11, <1>12, <1>13, <1>14 DEF Inv

\* A session stops and sends its Disconnect.
LEMMA StopInv == ASSUME Inv, NEW s \in Sessions, Stop(s) PROVE Inv'
<1> DEFINE r == [session[s] EXCEPT !.state = "stopped", !.inbox = <<>>]
           e == <<"disconnect", session[s].id>>
<1>1. /\ session[s] \in SessionRecord /\ session[s].state # "none" /\ ~Shown(s)
      /\ session[s].id \in {Unanswered, s}
  <2>1. session \in [Sessions -> SessionRecord]
    BY Zenon DEF Inv, TypeOK, SessionRecord
  <2> QED
    BY <2>1 DEF Stop, Inv, OwnId
<1>2. /\ r \in SessionRecord /\ r.inbox = <<>> /\ r.state = "stopped"
      /\ r.id = session[s].id /\ r.answered = session[s].answered
      /\ r.joinedAt = session[s].joinedAt
  <2>1. <<>> \in Seq(0..MaxChanges)
    OBVIOUS
  <2>2. [session[s] EXCEPT !.state = "stopped"] \in SessionRecord
    BY <1>1 DEF SessionRecord
  <2>3. r \in SessionRecord
    BY <1>1, <2>1, <2>2 DEF SessionRecord
  <2> QED
    BY <1>1, <2>3 DEF SessionRecord
<1>3. session' = [session EXCEPT ![s] = r]
  BY <1>1 DEF Stop, Inv, TypeOK
<1>4. e \in Letters /\ mailbox' = Append(mailbox, e)
  BY <1>1 DEF Stop, Letters
<1>5. UNCHANGED <<files, channel, received, unseen, sessions, page>>
  BY DEF Stop
<1> HIDE DEF r
<1>6. /\ session' \in [Sessions -> SessionRecord] /\ session'[s] = r
      /\ \A t \in Sessions \ {s} : session'[t] = session[t]
  BY <1>2, <1>3, SetSession DEF Inv
<1>7. /\ mailbox \in Seq(Letters) /\ mailbox' \in Seq(Letters)
      /\ Len(mailbox) \in Nat /\ Len(mailbox') = Len(mailbox) + 1
      /\ mailbox'[Len(mailbox')] = e
      /\ \A i \in 1..Len(mailbox) : mailbox'[i] = mailbox[i]
      /\ \A i \in 1..Len(mailbox') : i = Len(mailbox') \/ i \in 1..Len(mailbox)
  <2> HIDE DEF e
  <2> QED
    BY <1>4, SendLetter DEF Inv
<1>8. ASSUME NEW t \in Sessions
      PROVE  /\ session'[t].id = session[t].id
             /\ session'[t].joinedAt = session[t].joinedAt
             /\ session'[t].answered = session[t].answered
             /\ t # s => session'[t] = session[t]
             /\ session'[t].inbox \in {session[t].inbox, <<>>}
             /\ session'[t].state = "none" <=> session[t].state = "none"
  BY <1>1, <1>2, <1>6
<1>9. TypeOK'
  BY <1>5, <1>6, <1>7, Zenon DEF Inv, TypeOK, SessionRecord, Letters
<1>10. Fresh'
  BY <1>1, <1>5, <1>8 DEF Inv, Fresh
<1>11. (OwnId /\ Alive)'
  BY <1>1, <1>5, <1>8 DEF Inv, OwnId, Alive, Shown
<1>12. Asked'
  <2> SUFFICES ASSUME NEW i \in 1..Len(mailbox'), mailbox'[i][1] = "connect"
               PROVE  LET t == mailbox'[i][2]
                      IN  /\ t \in Sessions /\ session'[t].state # "none"
                          /\ session'[t].id = Unanswered /\ ~session'[t].answered
                          /\ session'[t].inbox = <<>> /\ t \notin sessions'
                          /\ \A j \in 1..Len(mailbox') : mailbox'[j] = mailbox'[i] => j = i
    BY DEF Asked
  <2>1. i \in 1..Len(mailbox) /\ mailbox'[i] = mailbox[i]
    BY <1>7
  <2>2. LET t == mailbox[i][2]
        IN  /\ t \in Sessions /\ session[t].state # "none"
            /\ session[t].id = Unanswered /\ ~session[t].answered
            /\ session[t].inbox = <<>> /\ t \notin sessions
            /\ \A j \in 1..Len(mailbox) : mailbox[j] = mailbox[i] => j = i
    BY <2>1 DEF Inv, Asked
  <2>3. \A j \in 1..Len(mailbox') : mailbox'[j] = mailbox'[i] => j = i
    BY <1>7, <2>1, <2>2, SMTT(60)
  <2> QED
    BY <1>5, <1>8, <2>1, <2>2, <2>3
<1>13. GhostsWereUnanswered'
  <2> SUFFICES ASSUME NEW t \in sessions, session'[t].state = "stopped",
                      session'[t].id # Unanswered
               PROVE  \E i \in 1..Len(mailbox') : mailbox'[i] = <<"disconnect", t>>
    BY <1>5 DEF GhostsWereUnanswered
  <2>1. t \in Sessions
    BY DEF Inv, TypeOK
  <2>2. CASE t = s
    <3>1. e = <<"disconnect", t>> /\ Len(mailbox') \in 1..Len(mailbox')
      BY <1>1, <1>7, <1>8, <2>1, <2>2
    <3> QED
      BY <1>7, <3>1
  <2>3. CASE t # s
    <3>1. PICK i \in 1..Len(mailbox) : mailbox[i] = <<"disconnect", t>>
      BY <1>8, <2>1, <2>3 DEF Inv, GhostsWereUnanswered
    <3>2. i \in 1..Len(mailbox') /\ mailbox'[i] = mailbox[i]
      BY <1>7
    <3> QED
      BY <3>1, <3>2
  <2> QED
    BY <2>2, <2>3
<1>14. Newer'
  BY <1>5, <1>8 DEF Inv, Newer
<1>15. Received'
  BY <1>2, <1>5, <1>6, <1>8 DEF Inv, Received
<1>16. ToldOfEverything'
  BY <1>1, <1>5, <1>8, ZenonT(60) DEF Inv, ToldOfEverything, Shown
<1> QED
  BY <1>9, <1>10, <1>11, <1>12, <1>13, <1>14, <1>15, <1>16 DEF Inv

\* A page connects: its session starts and sends its Connect.
LEMMA ConnectInv == ASSUME Inv, NEW p \in Pages, Connect(p) PROVE Inv'
<1> DEFINE s == <<p, page[p].count + 1>>
           r == [session[s] EXCEPT !.state = "waiting"]
           e == <<"connect", s>>
<1>1. /\ page \in [Pages -> [count : Nat, connected : BOOLEAN]]
      /\ page[p].count \in Nat /\ ~page[p].connected
      /\ page[p].count + 1 \in 1..MaxConnections[p]
  <2>1. page \in [Pages -> [count : Nat, connected : BOOLEAN]]
    BY DEF Inv, TypeOK
  <2>2. page[p].count < MaxConnections[p] /\ MaxConnections[p] \in Nat
        /\ ~page[p].connected
    BY BoundsAssumption DEF Connect
  <2> QED
    BY <2>1, <2>2
<1>2. s \in Sessions /\ PageOf(s) = p /\ s[2] = page[p].count + 1
  BY <1>1, SessionMade
<1>3. s[2] > page[PageOf(s)].count
  BY <1>1, <1>2
<1>4. /\ session[s] \in SessionRecord /\ session[s].state = "none"
      /\ session[s].id = Unanswered /\ ~session[s].answered
      /\ session[s].inbox = <<>> /\ s \notin sessions
  <2>1. session \in [Sessions -> SessionRecord]
    BY Zenon DEF Inv, TypeOK, SessionRecord
  <2> HIDE DEF s
  <2> QED
    BY <1>2, <1>3, <2>1 DEF Inv, Fresh
<1>5. /\ r \in SessionRecord /\ r.inbox = <<>> /\ r.state = "waiting"
      /\ r.id = Unanswered /\ ~r.answered /\ r.joinedAt = session[s].joinedAt
  BY <1>4 DEF SessionRecord
<1>6. session' = [session EXCEPT ![s] = r]
  BY <1>2, <1>4 DEF Connect, Inv, TypeOK
<1>7. e \in Letters /\ mailbox' = Append(mailbox, e)
  BY <1>2 DEF Connect, Letters
<1>8. page' = [page EXCEPT ![p].count = @ + 1, ![p].connected = TRUE]
      /\ UNCHANGED <<files, channel, received, unseen, sessions>>
  BY DEF Connect
<1> HIDE DEF r
<1>9. /\ session' \in [Sessions -> SessionRecord] /\ session'[s] = r
      /\ \A t \in Sessions \ {s} : session'[t] = session[t]
  <2> HIDE DEF s
  <2> QED
    BY <1>2, <1>5, <1>6, SetSession DEF Inv
<1>10. /\ mailbox \in Seq(Letters) /\ mailbox' \in Seq(Letters)
       /\ Len(mailbox) \in Nat /\ Len(mailbox') = Len(mailbox) + 1
       /\ mailbox'[Len(mailbox')] = e
       /\ \A i \in 1..Len(mailbox) : mailbox'[i] = mailbox[i]
       /\ \A i \in 1..Len(mailbox') : i = Len(mailbox') \/ i \in 1..Len(mailbox)
  <2> HIDE DEF e
  <2> QED
    BY <1>7, SendLetter DEF Inv
<1>11. /\ page' \in [Pages -> [count : Nat, connected : BOOLEAN]]
       /\ page'[p] = [count |-> page[p].count + 1, connected |-> TRUE]
       /\ \A q \in Pages \ {p} : page'[q] = page[q]
  BY <1>1, <1>8
<1>12. \A t \in Sessions : Shown(t)' => t = s \/ Shown(t)
  <2> SUFFICES ASSUME NEW t \in Sessions, Shown(t)', ~Shown(t) PROVE t = s
    OBVIOUS
  <2>1. PageOf(t) \in Pages /\ t = <<PageOf(t), t[2]>>
    BY SessionParts DEF PageOf
  <2>2. PageOf(t) = p
    BY <1>11, <2>1 DEF Shown
  <2>3. t[2] = page[p].count + 1
    BY <1>11, <2>2 DEF Shown
  <2> QED
    BY <2>1, <2>2, <2>3
<1> HIDE DEF s
<1>13. TypeOK'
  BY <1>8, <1>9, <1>10, <1>11, Zenon DEF Inv, TypeOK, SessionRecord, Letters
<1>14. Fresh'
  <2> SUFFICES ASSUME NEW t \in Sessions
               PROVE  /\ t[2] > page'[PageOf(t)].count => session'[t].state = "none"
                      /\ session'[t].state = "none" =>
                            /\ session'[t].id = Unanswered /\ ~session'[t].answered
                            /\ session'[t].inbox = <<>> /\ t \notin sessions'
    BY DEF Fresh
  <2>1. CASE t = s
    BY <1>1, <1>2, <1>5, <1>9, <1>11, <2>1
  <2>2. CASE t # s
    <3>1. session'[t] = session[t] /\ PageOf(t) \in Pages /\ t[2] \in Nat
      BY <1>9, <2>2, SessionParts
    <3>2. t[2] > page'[PageOf(t)].count => t[2] > page[PageOf(t)].count
      <4>1. CASE PageOf(t) = p
        <5>1. page'[p].count = page[p].count + 1
          BY <1>11
        <5> QED
          BY <1>1, <3>1, <4>1, <5>1
      <4>2. CASE PageOf(t) # p
        BY <1>11, <3>1, <4>2
      <4> QED
        BY <4>1, <4>2
    <3> QED
      BY <1>8, <3>1, <3>2 DEF Inv, Fresh
  <2> QED
    BY <2>1, <2>2
<1>15. (OwnId /\ Alive)'
  <2>1. OwnId'
    BY <1>5, <1>9 DEF Inv, OwnId
  <2>2. Alive'
    BY <1>5, <1>9, <1>12 DEF Inv, Alive
  <2> QED
    BY <2>1, <2>2
<1>16. Asked'
  <2> SUFFICES ASSUME NEW i \in 1..Len(mailbox'), mailbox'[i][1] = "connect"
               PROVE  LET t == mailbox'[i][2]
                      IN  /\ t \in Sessions /\ session'[t].state # "none"
                          /\ session'[t].id = Unanswered /\ ~session'[t].answered
                          /\ session'[t].inbox = <<>> /\ t \notin sessions'
                          /\ \A j \in 1..Len(mailbox') : mailbox'[j] = mailbox'[i] => j = i
    BY DEF Asked
  <2>1. \A k \in 1..Len(mailbox) : mailbox[k] # e
    <3> SUFFICES ASSUME NEW k \in 1..Len(mailbox), mailbox[k] = e PROVE FALSE
      OBVIOUS
    <3>1. mailbox[k][1] = "connect" /\ mailbox[k][2] = s
      OBVIOUS
    <3> QED
      BY <1>4, <3>1 DEF Inv, Asked
  <2>2. CASE i = Len(mailbox')
    <3>1. mailbox'[i] = e /\ e[2] = s
      BY <1>10, <2>2
    <3>2. \A j \in 1..Len(mailbox') : mailbox'[j] = mailbox'[i] => j = i
      BY <1>10, <2>1, <2>2, <3>1
    <3> QED
      BY <1>2, <1>4, <1>5, <1>8, <1>9, <3>1, <3>2
  <2>3. CASE i # Len(mailbox')
    <3>1. i \in 1..Len(mailbox) /\ mailbox'[i] = mailbox[i]
      BY <1>10, <2>3
    <3>2. LET t == mailbox[i][2]
          IN  /\ t \in Sessions /\ session[t].state # "none"
              /\ session[t].id = Unanswered /\ ~session[t].answered
              /\ session[t].inbox = <<>> /\ t \notin sessions
              /\ \A j \in 1..Len(mailbox) : mailbox[j] = mailbox[i] => j = i
      BY <3>1 DEF Inv, Asked
    <3>3. \A j \in 1..Len(mailbox') : mailbox'[j] = mailbox'[i] => j = i
      BY <1>10, <2>1, <3>1, <3>2
    <3>4. mailbox[i][2] # s
      BY <1>4, <3>2
    <3> QED
      BY <1>8, <1>9, <3>1, <3>2, <3>3, <3>4
  <2> QED
    BY <2>2, <2>3
<1>17. GhostsWereUnanswered'
  <2> SUFFICES ASSUME NEW t \in sessions, session'[t].state = "stopped",
                      session'[t].id # Unanswered
               PROVE  \E i \in 1..Len(mailbox') : mailbox'[i] = <<"disconnect", t>>
    BY <1>8 DEF GhostsWereUnanswered
  <2>1. t \in Sessions /\ t # s
    BY <1>4 DEF Inv, TypeOK
  <2>2. PICK i \in 1..Len(mailbox) : mailbox[i] = <<"disconnect", t>>
    BY <1>9, <2>1 DEF Inv, GhostsWereUnanswered
  <2>3. i \in 1..Len(mailbox') /\ mailbox'[i] = mailbox[i]
    BY <1>10
  <2> QED
    BY <2>2, <2>3
<1>18. Newer'
  BY <1>5, <1>8, <1>9 DEF Inv, Newer
<1>19. Received'
  BY <1>5, <1>8, <1>9 DEF Inv, Received
<1>20. ToldOfEverything'
  <2> SUFFICES ASSUME NEW t \in Sessions, Shown(t)', t \in sessions
               PROVE  LET inbox == session'[t].inbox
                      IN  /\ received # session'[t].joinedAt =>
                                inbox # <<>> /\ inbox[Len(inbox)] = received
                          /\ \A i \in 1..(Len(inbox) - 1) : inbox[i] < inbox[i + 1]
    BY <1>8 DEF ToldOfEverything
  <2>1. t # s /\ Shown(t) /\ session'[t] = session[t]
    BY <1>4, <1>9, <1>12
  <2> QED
    BY <2>1 DEF Inv, ToldOfEverything
<1> QED
  BY <1>13, <1>14, <1>15, <1>16, <1>17, <1>18, <1>19, <1>20 DEF Inv

\* A page leaves.
LEMMA LeaveInv == ASSUME Inv, NEW p \in Pages, Leave(p) PROVE Inv'
<1>1. UNCHANGED <<files, channel, received, unseen, mailbox, sessions, session>>
  BY DEF Leave
<1>2. /\ page' \in [Pages -> [count : Nat, connected : BOOLEAN]]
      /\ \A q \in Pages : page'[q].count = page[q].count
      /\ ~page'[p].connected
      /\ \A q \in Pages \ {p} : page'[q] = page[q]
  BY DEF Leave, Inv, TypeOK
<1>3. \A s \in Sessions : Shown(s)' => Shown(s)
  BY <1>2, SessionParts DEF Shown
<1>4. TypeOK'
  BY <1>1, <1>2, Zenon DEF Inv, TypeOK
<1>5. Fresh'
  BY <1>1, <1>2, SessionParts DEF Inv, Fresh
<1>6. (OwnId /\ Asked /\ GhostsWereUnanswered /\ Newer /\ Received)'
  BY <1>1 DEF Inv, OwnId, Asked, GhostsWereUnanswered, Newer, Received
<1>7. (Alive /\ ToldOfEverything)'
  BY <1>1, <1>3 DEF Inv, Alive, ToldOfEverything
<1> QED
  BY <1>4, <1>5, <1>6, <1>7 DEF Inv

\* Every step keeps the invariant.
LEMMA StepInv == Inv /\ [Next]_vars => Inv'
<1> SUFFICES ASSUME Inv, [Next]_vars PROVE Inv'
  OBVIOUS
<1>1. CASE FileChanges \/ Broadcast
  BY <1>1, WatcherInv
<1>2. CASE Receive
  BY <1>2, ReceiveInv
<1>3. CASE HandleMail
  BY <1>3, ConnectedInv, DisconnectedInv DEF HandleMail
<1>4. CASE \E s \in Sessions : Answer(s) \/ HandleMessage(s) \/ Stop(s)
  BY <1>4, AnswerInv, MessageInv, StopInv
<1>5. CASE \E p \in Pages : Connect(p) \/ Leave(p)
  BY <1>5, ConnectInv, LeaveInv
<1>6. CASE UNCHANGED vars
  BY <1>6 DEF vars, Inv, TypeOK, Fresh, OwnId, Asked, GhostsWereUnanswered, Alive,
     Newer, Received, ToldOfEverything, Shown
<1> QED
  BY <1>1, <1>2, <1>3, <1>4, <1>5, <1>6 DEF Next

\* The invariant holds in every state of every behavior.
LEMMA InvHolds == Spec => []Inv
  BY InitInv, StepInv, PTL DEF Spec

-----------------------------------------------------------------------------
(* What the live reload promises.                                          *)

\* Every variable of the live reload keeps its type, and what was received
\* never runs ahead of the channel, nor the channel ahead of the files.
THEOREM TypeCorrect == Spec => []TypeOK
<1>1. Inv => TypeOK
  BY DEF Inv
<1> QED
  BY <1>1, InvHolds, PTL

\* A session that has stopped and is still in the table of ReloadServer has a
\* Disconnect on its way or stopped before the answer to its Connect, when
\* stopping() sends the id 0.
THEOREM GhostsOnlyUnanswered == Spec => []GhostsWereUnanswered
<1>1. Inv => GhostsWereUnanswered
  BY DEF Inv
<1> QED
  BY <1>1, InvHolds, PTL

\* Whatever paths the watch channel has replaced, a session that its page
\* stays on has the newest path received since it joined, after older ones.
THEOREM NewestPathTold == Spec => []ToldOfEverything
<1>1. Inv => ToldOfEverything
  BY DEF Inv
<1> QED
  BY <1>1, InvHolds, PTL
=============================================================================
