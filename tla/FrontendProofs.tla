---------------------------- MODULE FrontendProofs ----------------------------
(***************************************************************************)
(* The safety of the app's page and its session state, for any number of   *)
(* files and requests.                                                     *)
(***************************************************************************)
EXTENDS Frontend, TLAPS

-----------------------------------------------------------------------------
(* Records and sequences                                                   *)

UiType == [session_id : Maybe, corpus_info : Maybe, uploaded_file_key : {FileKey[f] : f \in Files} \cup {Nothing},
           chat_history : Seq([turn : Requests, dataset : Requests])]
PostType == [kind : {"upload", "query", Nothing}, session : Maybe, file : Files \cup {Nothing}]

\* What a 200 of an upload makes of the session state.
LEMMA AdoptedFacts ==
  ASSUME ui \in UiType, NEW r \in Requests
  PROVE  Adopted(r) = [session_id |-> SessionOf(r), corpus_info |-> r,
                       uploaded_file_key |-> FileKey[post[r].file], chat_history |-> ui.chat_history]
<1>. DEFINE key == FileKey[post[r].file]
            one == [ui EXCEPT !.session_id = SessionOf(r)]
            two == [one EXCEPT !.corpus_info = r]
<1>1. ui = [session_id |-> ui.session_id, corpus_info |-> ui.corpus_info,
            uploaded_file_key |-> ui.uploaded_file_key, chat_history |-> ui.chat_history]
  BY DEF UiType
<1>2. ASSUME NEW new
      PROVE  [ui EXCEPT !.session_id = new]
               = [session_id |-> new, corpus_info |-> ui.corpus_info,
                  uploaded_file_key |-> ui.uploaded_file_key, chat_history |-> ui.chat_history]
  BY <1>1
<1>3. one = [session_id |-> SessionOf(r), corpus_info |-> ui.corpus_info,
             uploaded_file_key |-> ui.uploaded_file_key, chat_history |-> ui.chat_history]
  BY <1>2
<1>. HIDE DEF one
<1>4. two = [session_id |-> SessionOf(r), corpus_info |-> r,
             uploaded_file_key |-> ui.uploaded_file_key, chat_history |-> ui.chat_history]
  BY <1>3
<1>5. Adopted(r) = [two EXCEPT !.uploaded_file_key = key]
  BY DEF Adopted, one
<1>. HIDE DEF two, key
<1>6. [two EXCEPT !.uploaded_file_key = key]
        = [session_id |-> SessionOf(r), corpus_info |-> r, uploaded_file_key |-> key, chat_history |-> ui.chat_history]
  BY <1>4
<1>. QED
  BY <1>5, <1>6 DEF key

\* What a 200 of a query makes of it.
LEMMA ShownFacts ==
  ASSUME ui \in UiType, NEW t \in Requests, NEW d \in Requests,
         ui' = [ui EXCEPT !.chat_history = Append(@, [turn |-> t, dataset |-> d])]
  PROVE  /\ ui' \in UiType
         /\ ui'.session_id = ui.session_id /\ ui'.corpus_info = ui.corpus_info
         /\ ui'.uploaded_file_key = ui.uploaded_file_key
         /\ Len(ui.chat_history) \in Nat /\ DOMAIN ui.chat_history = 1..Len(ui.chat_history)
         /\ DOMAIN ui'.chat_history = 1..(Len(ui.chat_history) + 1)
         /\ \A i \in 1..Len(ui.chat_history) : ui'.chat_history[i] = ui.chat_history[i]
         /\ ui'.chat_history[Len(ui.chat_history) + 1].turn = t
         /\ ui'.chat_history[Len(ui.chat_history) + 1].dataset = d
<1>. DEFINE h == ui.chat_history
            entry == [turn |-> t, dataset |-> d]
            new == Append(h, entry)
<1>1. entry \in [turn : Requests, dataset : Requests] /\ entry.turn = t /\ entry.dataset = d
  OBVIOUS
<1>2. h \in Seq([turn : Requests, dataset : Requests])
  BY DEF UiType
<1>. HIDE DEF entry
<1>3. /\ new \in Seq([turn : Requests, dataset : Requests]) /\ Len(h) \in Nat /\ DOMAIN h = 1..Len(h)
      /\ DOMAIN new = 1..(Len(h) + 1) /\ \A i \in 1..Len(h) : new[i] = h[i]
      /\ new[Len(h) + 1] = entry
  BY <1>1, <1>2
<1>4. ui' = [ui EXCEPT !.chat_history = new]
  BY DEF entry
<1>. HIDE DEF new
<1>5. /\ ui' \in UiType /\ ui'.session_id = ui.session_id /\ ui'.corpus_info = ui.corpus_info
      /\ ui'.uploaded_file_key = ui.uploaded_file_key /\ ui'.chat_history = new
  BY <1>3, <1>4 DEF UiType
<1>. QED
  BY <1>1, <1>3, <1>5

\* What the backend's operations make of a session.
LEMMA SessionFacts ==
  ASSUME NEW session \in Store!SessionData, NEW r \in Requests
  PROVE  /\ Store!WithCorpus(session, r, r) \in Store!SessionData
         /\ Store!WithCorpus(session, r, r).corpus_ref = r
         /\ Store!WithCorpus(session, r, r).chat_history = session.chat_history
         /\ Store!WithTurn(session, r) \in Store!SessionData
         /\ Store!WithTurn(session, r).corpus_ref = session.corpus_ref
         /\ Store!WithTurn(session, r).chat_history
              = session.chat_history \o << [role |-> "user", turn |-> r], [role |-> "assistant", turn |-> r] >>
<1>. DEFINE h == session.chat_history
            tail == << [role |-> "user", turn |-> r], [role |-> "assistant", turn |-> r] >>
<1>1. /\ session.corpus_ref \in Store!Maybe /\ session.profile \in Store!Maybe /\ h \in Seq(Store!Turns)
      /\ session = [corpus_ref |-> session.corpus_ref, profile |-> session.profile, chat_history |-> h]
  BY DEF Store!SessionData
<1>2. tail \in Seq(Store!Turns)
  <2>1. [role |-> "user", turn |-> r] \in Store!Turns /\ [role |-> "assistant", turn |-> r] \in Store!Turns
    BY DEF Store!Turns
  <2>. QED
    BY <2>1
<1>3. h \o tail \in Seq(Store!Turns) /\ r \in Store!Maybe
  BY <1>1, <1>2 DEF Store!Maybe
<1>4. Store!WithCorpus(session, r, r) = [corpus_ref |-> r, profile |-> r, chat_history |-> h]
  <2>. DEFINE new == [corpus_ref |-> r, profile |-> session.profile, chat_history |-> h]
  <2>1. [session EXCEPT !.corpus_ref = r] = new
    BY <1>1
  <2>2. [new EXCEPT !.profile = r] = [corpus_ref |-> r, profile |-> r, chat_history |-> h]
    OBVIOUS
  <2>3. Store!WithCorpus(session, r, r) = [new EXCEPT !.profile = r]
    BY <2>1 DEF Store!WithCorpus
  <2>. QED
    BY <2>2, <2>3
<1>5. Store!WithTurn(session, r) = [corpus_ref |-> session.corpus_ref, profile |-> session.profile,
                                   chat_history |-> h \o tail]
  <2>1. Store!WithTurn(session, r) = [session EXCEPT !.chat_history = h \o tail]
    BY DEF Store!WithTurn
  <2>2. ASSUME NEW new
        PROVE  [session EXCEPT !.chat_history = new]
                 = [corpus_ref |-> session.corpus_ref, profile |-> session.profile, chat_history |-> new]
    BY <1>1
  <2>. HIDE DEF tail
  <2>. QED
    BY <2>1, <2>2
<1>. HIDE DEF tail
<1>6. /\ [corpus_ref |-> r, profile |-> r, chat_history |-> h] \in Store!SessionData
      /\ [corpus_ref |-> session.corpus_ref, profile |-> session.profile, chat_history |-> h \o tail] \in Store!SessionData
  BY <1>1, <1>3 DEF Store!SessionData
<1>. QED
  BY <1>4, <1>5, <1>6 DEF tail

LEMMA NewSessionFacts == Store!NewSession \in Store!SessionData /\ Store!NewSession.chat_history = <<>>
<1>1. <<>> \in Seq(Store!Turns) /\ Nothing \in Store!Maybe
  BY DEF Store!Maybe
<1>. QED
  BY <1>1 DEF Store!NewSession, Store!SessionData

\* Where the questions of a history are once r's turn is appended to it.
LEMMA AppendFacts ==
  ASSUME NEW session \in Store!SessionData, NEW r \in Requests
  PROVE  /\ \A q \in Requests \ {r} :
              Position(Store!WithTurn(session, r).chat_history, q) = Position(session.chat_history, q)
         /\ \A q : \A p \in Position(session.chat_history, q) : p \in 1..Len(session.chat_history)
         /\ Len(session.chat_history) \in Nat
         /\ Position(session.chat_history, r) = {} =>
              Position(Store!WithTurn(session, r).chat_history, r) = {Len(session.chat_history) + 1}
         /\ \A i \in DOMAIN Store!WithTurn(session, r).chat_history :
              \/ Store!WithTurn(session, r).chat_history[i].turn = r
              \/ /\ i \in DOMAIN session.chat_history
                 /\ Store!WithTurn(session, r).chat_history[i] = session.chat_history[i]
<1>. DEFINE h == session.chat_history
            new == Store!WithTurn(session, r).chat_history
<1>0. h \in Seq(Store!Turns) /\ new = h \o << [role |-> "user", turn |-> r], [role |-> "assistant", turn |-> r] >>
  BY SessionFacts DEF Store!SessionData
<1>. HIDE DEF h, new
<1>1. /\ Len(h) \in Nat /\ DOMAIN h = 1..Len(h) /\ Len(new) = Len(h) + 2 /\ DOMAIN new = 1..Len(new)
      /\ \A i \in 1..Len(h) : new[i] = h[i]
      /\ new[Len(h) + 1] = [role |-> "user", turn |-> r] /\ new[Len(h) + 2] = [role |-> "assistant", turn |-> r]
  BY <1>0
<1>2. \A i \in 1..Len(new) : i \in 1..Len(h) \/ i \in {Len(h) + 1, Len(h) + 2}
  BY <1>1
<1>3. new[Len(h) + 1].turn = r /\ new[Len(h) + 2].turn = r /\ new[Len(h) + 2] # [role |-> "user", turn |-> r]
  BY <1>1
<1>4. ASSUME NEW q \in Requests \ {r} PROVE Position(new, q) = Position(h, q)
  <2>1. \A i \in {Len(h) + 1, Len(h) + 2} : new[i] # [role |-> "user", turn |-> q]
    BY <1>1
  <2>. QED
    BY <1>1, <1>2, <2>1 DEF Position
<1>5. Position(h, r) = {} => Position(new, r) = {Len(h) + 1}
  BY <1>1, <1>2, <1>3 DEF Position
<1>6. \A q : \A p \in Position(h, q) : p \in 1..Len(h)
  BY <1>1 DEF Position
<1>. QED
  BY <1>1, <1>2, <1>3, <1>4, <1>5, <1>6 DEF h, new

-----------------------------------------------------------------------------
(* What steps do                                                           *)

\* The script goes on, or a new run of it starts, without a request.
Quiet ==
  /\ script \notin {"uploading", "asking"} /\ script' \notin {"uploading", "asking"}
  /\ \/ script' = "sidebar"
     \/ script' = "settings" /\ ~NewFile /\ widget' = widget
     \/ script = "settings" /\ script' = "idle" /\ widget' = widget
  /\ UNCHANGED <<waiting, ui, given_up, post, progress, sessions, answer_from>>

\* The script sends r and waits for it.
Sends(r, kind, file) ==
  /\ progress[r] = "unused" /\ waiting' = r /\ script \notin {"uploading", "asking"}
  /\ post'[r] = [kind |-> kind, session |-> ui.session_id, file |-> file] /\ progress'[r] = "sent"
  /\ \A d \in Requests \ {r} : post'[d] = post[d] /\ progress'[d] = progress[d]
  /\ UNCHANGED <<widget, ui, given_up, sessions, answer_from>>

\* The script stops waiting without an answer.
GivesUp ==
  /\ waiting # Nothing /\ waiting' = Nothing /\ script' \in {"settings", "idle"}
  /\ given_up \subseteq given_up' /\ given_up' \subseteq given_up \cup {waiting}
  /\ waiting \in given_up' \/ progress[waiting] = "rejected"
  /\ script' = "settings" => script = "uploading"
  /\ UNCHANGED <<widget, ui, post, progress, sessions, answer_from>>

LEMMA StepCases ==
  ASSUME TypeOK, [Next]_vars
  PROVE  \/ Quiet \/ Clear
         \/ \E r \in Requests : Sends(r, "upload", widget) /\ NewFile /\ script' = "uploading"
         \/ \E r \in Requests : Sends(r, "query", Nothing) /\ ui.corpus_info # Nothing /\ script' = "asking" /\ script = "settings"
         \/ UploadAnswered \/ QueryAnswered \/ GivesUp
         \/ \E r \in Requests : HandleUpload(r) \/ StartQuery(r) \/ FinishQuery(r) \/ Reject(r)
         \/ UNCHANGED vars
<1>1. CASE SelectFile \/ RemoveFile \/ Ask \/ PressClear \/ EditHint
  BY <1>1 DEF SelectFile, RemoveFile, Ask, PressClear, EditHint, MayRun, BackendUnchanged, Quiet
<1>2. CASE NothingToUpload
  BY <1>2 DEF NothingToUpload, BackendUnchanged, Quiet
<1>3. ASSUME NEW kind, NEW file, Send(kind, file), UNCHANGED <<widget, ui, given_up>>, script \notin {"uploading", "asking"}
      PROVE  \E r \in Requests : Sends(r, kind, file)
  BY <1>3 DEF Send, Sends, Unused, TypeOK
<1>4. CASE UploadFile
  BY <1>3, <1>4 DEF UploadFile
<1>5. CASE ShowChat
  <2>1. CASE asked /\ ui.corpus_info # Nothing
    BY <1>3, <1>5, <2>1 DEF ShowChat
  <2>2. CASE ~(asked /\ ui.corpus_info # Nothing)
    BY <1>5, <2>2 DEF ShowChat, BackendUnchanged, Quiet
  <2>. QED
    BY <2>1, <2>2
<1>6. CASE AnswerMissing \/ Interrupted
  BY <1>6 DEF AnswerMissing, Interrupted, BackendUnchanged, GivesUp
<1>7. CASE OutOfRequests
  BY <1>7 DEF OutOfRequests
<1>. QED
  BY <1>1, <1>2, <1>4, <1>5, <1>6, <1>7 DEF Next, Script

\* An upload that the backend carries out: the session gets its corpus and keeps its turns.
LEMMA HandledUpload ==
  ASSUME IInv, NEW r \in Requests, HandleUpload(r)
  PROVE  \E new \in Store!SessionData :
           /\ progress[r] = "sent" /\ post[r].kind = "upload" /\ SessionOf(r) \in Requests
           /\ sessions' = [sessions EXCEPT ![SessionOf(r)] = new] /\ new.corpus_ref = r /\ new # Nothing
           /\ \/ post[r].session = Nothing /\ SessionOf(r) = r /\ sessions[r] = Nothing /\ new.chat_history = <<>>
              \/ /\ post[r].session = SessionOf(r) /\ sessions[SessionOf(r)] # Nothing /\ SessionOf(r) # r
                 /\ new.chat_history = sessions[SessionOf(r)].chat_history
           /\ progress' = [progress EXCEPT ![r] = "done"]
           /\ UNCHANGED <<script, waiting, widget, asked, cleared, ui, post, given_up, answer_from>>
<1>. DEFINE s == SessionOf(r)
            old == IF post[r].session = Nothing THEN Store!NewSession ELSE sessions[s]
            new == Store!WithCorpus(old, r, r)
<1>1. /\ progress[r] = "sent" /\ post[r].kind = "upload" /\ progress' = [progress EXCEPT ![r] = "done"]
      /\ UNCHANGED <<script, waiting, widget, asked, cleared, ui, post, given_up, answer_from>>
      /\ sessions' = [sessions EXCEPT ![s] = new]
  BY DEF HandleUpload, AppUnchanged
<1>2. s \in Requests
  <2>1. post[r].session \in Maybe
    BY DEF IInv, TypeOK
  <2>. QED
    BY <2>1 DEF SessionOf, Maybe
<1>3. /\ sessions[r] = Nothing
      /\ post[r].session # Nothing => sessions[s] # Nothing /\ s # r
  BY <1>1, <1>2 DEF IInv, PostsInv, SessionsInv, SessionOf
<1>4. old \in Store!SessionData
  BY <1>2, <1>3, NewSessionFacts DEF IInv, TypeOK
<1>5. new \in Store!SessionData /\ new.corpus_ref = r /\ new.chat_history = old.chat_history
  BY <1>4, SessionFacts
<1>6. \/ post[r].session = Nothing /\ s = r /\ old.chat_history = <<>>
      \/ post[r].session = s /\ post[r].session # Nothing /\ old.chat_history = sessions[s].chat_history
  BY NewSessionFacts DEF SessionOf
<1>. HIDE DEF new, old
<1>. QED
  BY <1>1, <1>2, <1>3, <1>5, <1>6, NothingAssumption

\* A query that the backend finishes: its turn is the last of its session.
LEMMA FinishedQuery ==
  ASSUME IInv, NEW r \in Requests, FinishQuery(r)
  PROVE  /\ progress[r] = "running" /\ post[r].kind = "query" /\ post[r].session \in Requests
         /\ sessions[post[r].session] # Nothing /\ sessions[post[r].session] \in Store!SessionData
         /\ sessions' = [sessions EXCEPT ![post[r].session] = Store!WithTurn(sessions[post[r].session], r)]
         /\ Store!WithTurn(sessions[post[r].session], r) # Nothing
         /\ progress' = [progress EXCEPT ![r] = "done"]
         /\ UNCHANGED <<script, waiting, widget, asked, cleared, ui, post, given_up, answer_from>>
<1>1. progress[r] = "running" /\ post[r].kind = "query" /\ post[r].session \in Requests
  BY DEF FinishQuery, IInv, TypeOK, PostsInv, Maybe
<1>2. sessions[post[r].session] # Nothing /\ sessions[post[r].session] \in Store!SessionData
  BY <1>1 DEF IInv, PostsInv, TypeOK
<1>3. Store!WithTurn(sessions[post[r].session], r) # Nothing
  BY <1>2, SessionFacts, NothingAssumption
<1>. QED
  BY <1>1, <1>2, <1>3 DEF FinishQuery, AppUnchanged

\* What the sessions of the backend keep in every step.
LEMMA SessionsStay ==
  ASSUME IInv, [Next]_vars, NEW s \in Requests, sessions[s] # Nothing
  PROVE  sessions'[s] # Nothing
<1>1. ASSUME NEW r \in Requests, HandleUpload(r) PROVE sessions'[s] # Nothing
  BY <1>1, HandledUpload DEF IInv, TypeOK
<1>2. ASSUME NEW r \in Requests, FinishQuery(r) PROVE sessions'[s] # Nothing
  BY <1>2, FinishedQuery DEF IInv, TypeOK
<1>3. ASSUME sessions' = sessions PROVE sessions'[s] # Nothing
  BY <1>3
<1>. QED
  BY <1>1, <1>2, <1>3, StepCases DEF IInv, Quiet, Sends, GivesUp, Clear, UploadAnswered, QueryAnswered,
     BackendUnchanged, StartQuery, Reject, vars

-----------------------------------------------------------------------------
(* Types and posts                                                         *)

LEMMA InitInv == Init => IInv
<1>. SUFFICES ASSUME Init PROVE IInv
  OBVIOUS
<1>1. TypeOK
  <2>1. NewUi \in UiType /\ NoPost \in PostType
    BY DEF NewUi, UiType, NoPost, PostType, Maybe
  <2>. QED
    BY <2>1 DEF Init, TypeOK, UiType, PostType, Maybe
<1>2. PostsInv /\ SessionsInv /\ WaitInv /\ WidgetInv
  BY DEF Init, PostsInv, SessionsInv, WaitInv, WidgetInv, NewUi
<1>3. ui.session_id = Nothing /\ DOMAIN ui.chat_history = {} /\ script = "idle"
  BY DEF Init, NewUi
<1>4. PageInv /\ DatasetInv /\ OrderInv
  BY <1>3 DEF Init, PageInv, SessionStateConsistent, DatasetInv, OrderInv, MismatchNeedsLostUpload, ShownTurnsAreRecorded
<1>. QED
  BY <1>1, <1>2, <1>4 DEF IInv

\* A request is on the page as a dataset, or waited for, only once it was sent.
LEMMA Waited ==
  ASSUME IInv, script \in {"uploading", "asking"}
  PROVE  /\ waiting \in Requests /\ progress[waiting] # "unused" /\ post[waiting].session = ui.session_id
         /\ script = "uploading" => post[waiting].kind = "upload" /\ post[waiting].file = widget /\ widget \in Files
         /\ script = "asking" => /\ post[waiting].kind = "query" /\ ui.session_id \in Requests
                                 /\ ui.corpus_info \in Requests /\ sessions[ui.session_id] # Nothing
<1>1. waiting \in Requests /\ progress[waiting] # "unused" /\ post[waiting].session = ui.session_id
  BY DEF IInv, WaitInv, TypeOK, Maybe
<1>2. CASE script = "uploading"
  BY <1>1, <1>2 DEF IInv, WaitInv, PostsInv
<1>3. CASE script = "asking"
  <2>1. post[waiting].kind = "query" /\ ui.session_id # Nothing /\ sessions[ui.session_id] # Nothing
    BY <1>1, <1>3 DEF IInv, WaitInv, PostsInv
  <2>2. ui.session_id \in Maybe /\ ui.corpus_info \in Maybe
    BY DEF IInv, TypeOK
  <2>. QED
    BY <1>1, <1>3, <2>1, <2>2 DEF IInv, PageInv, SessionStateConsistent, Maybe
<1>. QED
  BY <1>1, <1>2, <1>3

\* The answer to an upload: the page's dataset is that upload now.
LEMMA AnsweredUpload ==
  ASSUME IInv, UploadAnswered
  PROVE  /\ script = "uploading" /\ progress[waiting] = "done" /\ waiting \in Requests /\ post[waiting].kind = "upload"
         /\ ui' \in UiType /\ ui'.session_id = SessionOf(waiting) /\ ui'.corpus_info = waiting
         /\ ui'.uploaded_file_key = FileKey[post[waiting].file] /\ ui'.chat_history = ui.chat_history
         /\ SessionOf(waiting) \in Requests /\ sessions[SessionOf(waiting)] # Nothing
         /\ ui.session_id # Nothing => SessionOf(waiting) = ui.session_id
         /\ ui.session_id = Nothing => ui.chat_history = <<>>
         /\ script' = "settings" /\ waiting' = Nothing
         /\ UNCHANGED <<widget, asked, cleared, given_up, post, progress, sessions, answer_from>>
<1>1. /\ script = "uploading" /\ progress[waiting] = "done" /\ ui' = Adopted(waiting)
      /\ script' = "settings" /\ waiting' = Nothing
      /\ UNCHANGED <<widget, asked, cleared, given_up, post, progress, sessions, answer_from>>
  BY DEF UploadAnswered, BackendUnchanged
<1>2. waiting \in Requests /\ post[waiting].kind = "upload" /\ post[waiting].file \in Files
      /\ post[waiting].session = ui.session_id
  BY <1>1, Waited DEF IInv, PostsInv
<1>3. SessionOf(waiting) \in Requests /\ sessions[SessionOf(waiting)] # Nothing
  <2>1. post[waiting].session \in Maybe
    BY <1>2 DEF IInv, TypeOK
  <2>. QED
    BY <1>1, <1>2, <2>1 DEF SessionOf, IInv, SessionsInv, Maybe
<1>4. ui' = [session_id |-> SessionOf(waiting), corpus_info |-> waiting,
             uploaded_file_key |-> FileKey[post[waiting].file], chat_history |-> ui.chat_history]
  BY <1>1, <1>2, AdoptedFacts DEF IInv, TypeOK, UiType
<1>5. ui' \in UiType
  BY <1>2, <1>3, <1>4 DEF UiType, Maybe, IInv, TypeOK
<1>6. ui.session_id = Nothing => ui.chat_history = <<>>
  BY DEF IInv, PageInv, SessionStateConsistent, NewUi
<1>. QED
  BY <1>1, <1>2, <1>3, <1>4, <1>5, <1>6 DEF SessionOf

\* The answer to a query: the page shows its turn under the page's dataset.
LEMMA AnsweredQuery ==
  ASSUME IInv, QueryAnswered
  PROVE  /\ script = "asking" /\ progress[waiting] = "done" /\ waiting \in Requests
         /\ ui.corpus_info \in Requests
         /\ ui' = [ui EXCEPT !.chat_history = Append(@, [turn |-> waiting, dataset |-> ui.corpus_info])]
         /\ ui \in UiType /\ script' = "idle" /\ waiting' = Nothing
         /\ UNCHANGED <<widget, asked, cleared, given_up, post, progress, sessions, answer_from>>
BY Waited DEF QueryAnswered, BackendUnchanged, IInv, TypeOK, UiType

LEMMA TypeStep == IInv /\ [Next]_vars => TypeOK'
<1>. SUFFICES ASSUME IInv, [Next]_vars PROVE TypeOK'
  OBVIOUS
<1>0. TypeOK /\ ui \in UiType /\ post \in [Requests -> PostType]
  BY DEF IInv, TypeOK, UiType, PostType
<1>1. /\ script' \in {"idle", "sidebar", "uploading", "settings", "asking"}
      /\ widget' \in Files \cup {Nothing} /\ asked' \in BOOLEAN /\ cleared' \in BOOLEAN
  BY <1>0 DEF TypeOK, Next, vars, Script, SelectFile, RemoveFile, Ask, PressClear, EditHint, NothingToUpload, UploadFile,
     UploadAnswered, Clear, ShowChat, QueryAnswered, AnswerMissing, Interrupted, HandleUpload, StartQuery, FinishQuery,
     Reject, OutOfRequests, AppUnchanged, BackendUnchanged
<1>2. /\ waiting' \in Maybe /\ given_up' \subseteq Requests
  BY <1>0, Waited, StepCases DEF TypeOK, Quiet, Sends, GivesUp, Clear, UploadAnswered, QueryAnswered, Maybe, vars,
     HandleUpload, StartQuery, FinishQuery, Reject, AppUnchanged, BackendUnchanged
<1>3. ui' \in UiType
  <2>1. NewUi \in UiType
    BY DEF NewUi, UiType, Maybe
  <2>2. CASE UploadAnswered
    BY <2>2, AnsweredUpload
  <2>3. CASE QueryAnswered
    BY <2>3, AnsweredQuery, ShownFacts
  <2>. QED
    BY <1>0, <2>1, <2>2, <2>3, StepCases DEF Quiet, Sends, GivesUp, Clear, Cleared, vars,
     HandleUpload, StartQuery, FinishQuery, Reject, AppUnchanged
<1>4. post' \in [Requests -> PostType]
  <2>0. NoPost \in PostType /\ \A r \in Requests : [kind |-> "upload", session |-> ui.session_id, file |-> widget] \in PostType
        /\ [kind |-> "query", session |-> ui.session_id, file |-> Nothing] \in PostType
    BY <1>0 DEF NoPost, PostType, Maybe, UiType, TypeOK
  <2>1. CASE UploadFile
    BY <1>0, <2>0, <2>1 DEF UploadFile, Send
  <2>2. CASE ShowChat
    BY <1>0, <2>0, <2>2 DEF ShowChat, Send, BackendUnchanged
  <2>3. CASE post' = post
    BY <1>0, <2>3
  <2>. QED
    BY <2>1, <2>2, <2>3 DEF Next, vars, Script, SelectFile, RemoveFile, Ask, PressClear, EditHint, NothingToUpload,
     UploadAnswered, Clear, QueryAnswered, AnswerMissing, Interrupted, HandleUpload, StartQuery, FinishQuery,
     Reject, OutOfRequests, AppUnchanged, BackendUnchanged
<1>5. progress' \in [Requests -> {"unused", "sent", "running", "done", "rejected"}]
  BY <1>0 DEF TypeOK, Next, vars, Script, SelectFile, RemoveFile, Ask, PressClear, EditHint, NothingToUpload, UploadFile,
     UploadAnswered, Clear, ShowChat, QueryAnswered, AnswerMissing, Interrupted, HandleUpload, StartQuery, FinishQuery,
     Reject, OutOfRequests, BackendUnchanged, Send
<1>6. sessions' \in [Requests -> Store!SessionData \cup {Nothing}]
  <2>1. ASSUME NEW r \in Requests, HandleUpload(r) PROVE sessions' \in [Requests -> Store!SessionData \cup {Nothing}]
    BY <1>0, <2>1, HandledUpload DEF TypeOK
  <2>2. ASSUME NEW r \in Requests, FinishQuery(r) PROVE sessions' \in [Requests -> Store!SessionData \cup {Nothing}]
    <3>1. Store!WithTurn(sessions[post[r].session], r) \in Store!SessionData
      BY <2>2, FinishedQuery, SessionFacts
    <3>. QED
      BY <1>0, <2>2, <3>1, FinishedQuery DEF TypeOK
  <2>3. CASE sessions' = sessions
    BY <1>0, <2>3 DEF TypeOK
  <2>. QED
    BY <1>0, <2>1, <2>2, <2>3, StepCases DEF Quiet, Sends, GivesUp, Clear, UploadAnswered, QueryAnswered,
       BackendUnchanged, StartQuery, Reject, vars
<1>7. answer_from' \in [Requests -> Maybe]
  <2>1. ASSUME NEW r \in Requests, StartQuery(r) PROVE answer_from' \in [Requests -> Maybe]
    <3>1. post[r].session \in Requests /\ sessions[post[r].session] # Nothing
      BY <2>1 DEF StartQuery, IInv, PostsInv, TypeOK, Maybe
    <3>2. sessions[post[r].session].corpus_ref \in Maybe
      BY <3>1 DEF IInv, SessionsInv, Maybe
    <3>. QED
      BY <1>0, <2>1, <3>2 DEF StartQuery, TypeOK
  <2>. QED
    BY <1>0, <2>1, StepCases DEF TypeOK, Quiet, Sends, GivesUp, Clear, UploadAnswered, QueryAnswered,
       BackendUnchanged, HandleUpload, FinishQuery, Reject, vars
<1>. QED
  BY <1>1, <1>2, <1>3, <1>4, <1>5, <1>6, <1>7 DEF TypeOK, UiType, PostType

LEMMA PostsStep == IInv /\ [Next]_vars => PostsInv'
<1>. SUFFICES ASSUME IInv, [Next]_vars, NEW r \in Requests, progress'[r] # "unused"
              PROVE  /\ post'[r].kind \in {"upload", "query"} /\ (progress'[r] = "running" => post'[r].kind = "query")
                     /\ post'[r].kind = "upload" => post'[r].file \in Files
                     /\ post'[r].kind = "query" => post'[r].session # Nothing
                     /\ post'[r].session # Nothing => sessions'[post'[r].session] # Nothing
                     /\ progress'[r] \in {"sent", "running"} => r = waiting' \/ r \in given_up'
  BY DEF PostsInv, Pending
<1>0. TypeOK /\ PostsInv /\ SessionsInv /\ PageInv /\ WaitInv
  BY DEF IInv
<1>1. ASSUME progress[r] # "unused", post'[r] = post[r]
      PROVE  /\ post'[r].kind \in {"upload", "query"}
             /\ post'[r].kind = "upload" => post'[r].file \in Files
             /\ post'[r].kind = "query" => post'[r].session # Nothing
             /\ post'[r].session # Nothing => sessions'[post'[r].session] # Nothing
  <2>1. post[r].session \in Maybe
    BY <1>0 DEF TypeOK
  <2>. QED
    BY <1>0, <1>1, <2>1, SessionsStay DEF PostsInv, Maybe
<1>2. ASSUME NEW d \in Requests, NEW kind \in {"upload", "query"}, NEW file, Sends(d, kind, file),
             kind = "upload" => file \in Files, kind = "query" => ui.session_id # Nothing
      PROVE  /\ post'[r].kind \in {"upload", "query"} /\ (progress'[r] = "running" => post'[r].kind = "query")
             /\ post'[r].kind = "upload" => post'[r].file \in Files
             /\ post'[r].kind = "query" => post'[r].session # Nothing
             /\ post'[r].session # Nothing => sessions'[post'[r].session] # Nothing
             /\ progress'[r] \in {"sent", "running"} => r = waiting' \/ r \in given_up'
  <2>1. CASE r = d
    <3>1. ui.session_id # Nothing => sessions[ui.session_id] # Nothing
      BY <1>0 DEF PageInv, SessionStateConsistent, SessionsInv, TypeOK, Maybe
    <3>. QED
      BY <1>2, <2>1, <3>1 DEF Sends
  <2>2. CASE r # d
    <3>1. post'[r] = post[r] /\ progress'[r] = progress[r]
      BY <1>2, <2>2 DEF Sends
    <3>2. waiting = Nothing
      BY <1>0, <1>2 DEF Sends, WaitInv
    <3>. QED
      BY <1>0, <1>1, <1>2, <3>1, <3>2, NamesAssumption DEF PostsInv, Pending, Sends
  <2>. QED
    BY <2>1, <2>2
<1>3. CASE \E d \in Requests : \/ Sends(d, "upload", widget) /\ NewFile
                               \/ Sends(d, "query", Nothing) /\ ui.corpus_info # Nothing
  <2>1. NewFile => widget \in Files
    BY <1>0 DEF NewFile, TypeOK
  <2>2. ui.corpus_info # Nothing => ui.session_id # Nothing
    BY <1>0 DEF PageInv, SessionStateConsistent, NewUi
  <2>. QED
    BY <1>2, <1>3, <2>1, <2>2
<1>4. ASSUME UNCHANGED <<post, progress>>, waiting' = waiting \/ (\A d \in Requests : progress[d] \in {"sent", "running"} => d \in given_up'),
             given_up \subseteq given_up'
      PROVE  /\ post'[r].kind \in {"upload", "query"} /\ (progress'[r] = "running" => post'[r].kind = "query")
             /\ post'[r].kind = "upload" => post'[r].file \in Files
             /\ post'[r].kind = "query" => post'[r].session # Nothing
             /\ post'[r].session # Nothing => sessions'[post'[r].session] # Nothing
             /\ progress'[r] \in {"sent", "running"} => r = waiting' \/ r \in given_up'
  BY <1>0, <1>1, <1>4 DEF PostsInv, Pending
<1>5. CASE Quiet \/ Clear \/ UNCHANGED vars
  BY <1>4, <1>5 DEF Quiet, Clear, BackendUnchanged, vars
<1>6. CASE UploadAnswered \/ QueryAnswered
  <2>1. \A d \in Requests : progress[d] \in {"sent", "running"} => d \in given_up
    BY <1>0, <1>6 DEF UploadAnswered, QueryAnswered, PostsInv, Pending
  <2>. QED
    BY <1>4, <1>6, <2>1 DEF UploadAnswered, QueryAnswered, BackendUnchanged
<1>7. CASE GivesUp
  <2>1. \A d \in Requests : progress[d] \in {"sent", "running"} => d \in given_up'
    BY <1>0, <1>7 DEF GivesUp, PostsInv, Pending
  <2>. QED
    BY <1>4, <1>7, <2>1 DEF GivesUp
<1>8. ASSUME NEW d \in Requests, HandleUpload(d) \/ StartQuery(d) \/ FinishQuery(d) \/ Reject(d)
      PROVE  /\ post'[r].kind \in {"upload", "query"} /\ (progress'[r] = "running" => post'[r].kind = "query")
             /\ post'[r].kind = "upload" => post'[r].file \in Files
             /\ post'[r].kind = "query" => post'[r].session # Nothing
             /\ post'[r].session # Nothing => sessions'[post'[r].session] # Nothing
             /\ progress'[r] \in {"sent", "running"} => r = waiting' \/ r \in given_up'
  <2>1. UNCHANGED <<post, waiting, given_up>>
    BY <1>8 DEF HandleUpload, StartQuery, FinishQuery, Reject, AppUnchanged
  <2>2. /\ progress[r] # "unused"
        /\ progress'[r] \in {"sent", "running"} => progress[r] \in {"sent", "running"}
        /\ progress'[r] = "running" => progress[r] = "running" \/ post[r].kind = "query"
    BY <1>0, <1>8 DEF HandleUpload, StartQuery, FinishQuery, Reject, TypeOK
  <2>. QED
    BY <1>0, <1>1, <2>1, <2>2 DEF PostsInv, Pending
<1>. QED
  BY <1>0, <1>3, <1>5, <1>6, <1>7, <1>8, StepCases

-----------------------------------------------------------------------------
(* The backend's sessions                                                  *)

\* What was sent stays sent, and what is done is done for good.
LEMMA DoneStays ==
  ASSUME IInv, [Next]_vars, NEW r \in Requests, progress[r] # "unused"
  PROVE  /\ post'[r] = post[r] /\ progress'[r] # "unused" /\ SessionOf(r)' = SessionOf(r)
         /\ progress[r] = "done" => progress'[r] = "done" /\ answer_from'[r] = answer_from[r]
         /\ progress[r] = "rejected" => progress'[r] = "rejected"
<1>0. TypeOK
  BY DEF IInv
<1>1. /\ post'[r] = post[r] /\ progress'[r] # "unused"
      /\ progress[r] = "done" => progress'[r] = "done" /\ answer_from'[r] = answer_from[r]
      /\ progress[r] = "rejected" => progress'[r] = "rejected"
  <2>1. CASE \E d \in Requests : \E kind, file : Sends(d, kind, file)
    BY <2>1 DEF Sends
  <2>2. ASSUME NEW d \in Requests, HandleUpload(d) \/ StartQuery(d) \/ FinishQuery(d) \/ Reject(d)
        PROVE  /\ post'[r] = post[r] /\ progress'[r] # "unused"
               /\ progress[r] = "done" => progress'[r] = "done" /\ answer_from'[r] = answer_from[r]
               /\ progress[r] = "rejected" => progress'[r] = "rejected"
    BY <1>0, <2>2 DEF HandleUpload, StartQuery, FinishQuery, Reject, AppUnchanged, TypeOK
  <2>3. CASE UNCHANGED <<post, progress, answer_from>>
    BY <2>3
  <2>. QED
    BY <1>0, <2>1, <2>2, <2>3, StepCases DEF Quiet, Clear, UploadAnswered, QueryAnswered, GivesUp, BackendUnchanged, vars
<1>. QED
  BY <1>1 DEF SessionOf

\* Nothing of a query is in a history before it is done.
LEMMA NotYet ==
  ASSUME IInv, NEW s \in Requests, sessions[s] # Nothing, NEW r \in Requests, progress[r] # "done"
  PROVE  Position(sessions[s].chat_history, r) = {}
<1>1. \A i \in DOMAIN sessions[s].chat_history : sessions[s].chat_history[i].turn # r
  BY DEF IInv, SessionsInv
<1>. QED
  BY <1>1 DEF Position

LEMMA SessionsStep == IInv /\ [Next]_vars => SessionsInv'
<1>. SUFFICES ASSUME IInv, [Next]_vars PROVE SessionsInv'
  OBVIOUS
<1>0. TypeOK /\ PostsInv /\ SessionsInv
  BY DEF IInv
<1>. DEFINE Sound(s, session) ==
              /\ progress'[s] = "done" /\ post'[s].kind = "upload" /\ post'[s].session = Nothing
              /\ session.corpus_ref \in Requests /\ progress'[session.corpus_ref] = "done"
              /\ \A i \in DOMAIN session.chat_history : progress'[session.chat_history[i].turn] = "done"
            Kept(r) == /\ post'[r].kind = "upload" => sessions'[SessionOf(r)'] # Nothing
                       /\ post'[r].kind = "query" => Position(sessions'[post'[r].session].chat_history, r) # {}
<1>1. ASSUME NEW s \in Requests, sessions[s] # Nothing PROVE Sound(s, sessions[s])
  <2>1. sessions[s].chat_history \in Seq(Store!Turns)
    BY <1>0, <1>1 DEF TypeOK, Store!SessionData
  <2>2. \A i \in DOMAIN sessions[s].chat_history : sessions[s].chat_history[i].turn \in Requests
    <3>. DEFINE h == sessions[s].chat_history
    <3>1. h \in Seq(Store!Turns)
      BY <2>1
    <3>. HIDE DEF h
    <3>2. \A i \in DOMAIN h : h[i] \in Store!Turns
      BY <3>1
    <3>3. \A i \in DOMAIN h : h[i].turn \in Requests
      BY <3>2 DEF Store!Turns
    <3>. QED
      BY <3>3 DEF h
  <2>. QED
    BY <1>0, <1>1, <2>2, DoneStays DEF SessionsInv
<1>2. ASSUME NEW r \in Requests, progress[r] = "done"
      PROVE  /\ post'[r].kind = "upload" => sessions'[SessionOf(r)'] # Nothing
             /\ post'[r].kind = "query" => /\ post'[r].session = post[r].session /\ post[r].session \in Requests
                                           /\ sessions[post[r].session] # Nothing
                                           /\ Position(sessions[post[r].session].chat_history, r) # {}
  <2>1. post[r].session \in Maybe
    BY <1>0 DEF TypeOK
  <2>2. post'[r] = post[r] /\ SessionOf(r)' = SessionOf(r)
    BY <1>2, DoneStays
  <2>3. SessionOf(r) \in Requests
    BY <2>1 DEF SessionOf, Maybe
  <2>. QED
    BY <1>0, <1>2, <2>1, <2>2, <2>3, SessionsStay DEF SessionsInv, PostsInv, Maybe
<1>3. ASSUME NEW r \in Requests, HandleUpload(r)
      PROVE  /\ \A s \in Requests : sessions'[s] # Nothing => Sound(s, sessions'[s])
             /\ \A q \in Requests : progress'[q] = "done" => Kept(q)
  <2>1. PICK new \in Store!SessionData :
           /\ progress[r] = "sent" /\ post[r].kind = "upload" /\ SessionOf(r) \in Requests
           /\ sessions' = [sessions EXCEPT ![SessionOf(r)] = new] /\ new.corpus_ref = r /\ new # Nothing
           /\ \/ post[r].session = Nothing /\ SessionOf(r) = r /\ sessions[r] = Nothing /\ new.chat_history = <<>>
              \/ /\ post[r].session = SessionOf(r) /\ sessions[SessionOf(r)] # Nothing /\ SessionOf(r) # r
                 /\ new.chat_history = sessions[SessionOf(r)].chat_history
           /\ progress' = [progress EXCEPT ![r] = "done"]
    BY <1>3, HandledUpload
  <2>2. progress'[r] = "done" /\ post'[r] = post[r] /\ SessionOf(r)' = SessionOf(r)
    BY <1>0, <2>1, DoneStays DEF TypeOK
  <2>3. \A s \in Requests : sessions'[s] = IF s = SessionOf(r) THEN new ELSE sessions[s]
    BY <1>0, <2>1 DEF TypeOK
  <2>4. Sound(SessionOf(r), new)
    <3>1. CASE post[r].session = Nothing /\ SessionOf(r) = r /\ new.chat_history = <<>>
      BY <2>1, <2>2, <3>1
    <3>2. CASE sessions[SessionOf(r)] # Nothing /\ new.chat_history = sessions[SessionOf(r)].chat_history
      BY <1>1, <2>1, <2>2, <3>2
    <3>. QED
      BY <2>1, <3>1, <3>2
  <2>5. \A s \in Requests : sessions'[s] # Nothing => Sound(s, sessions'[s])
    <3>. HIDE DEF Sound
    <3>. QED
      BY <1>1, <2>3, <2>4
  <2>6. ASSUME NEW q \in Requests, progress'[q] = "done" PROVE Kept(q)
    <3>1. CASE q = r
      BY <2>1, <2>2, <2>3, <3>1
    <3>2. CASE q # r
      <4>1. progress[q] = "done"
        BY <1>0, <2>1, <2>6, <3>2 DEF TypeOK
      <4>. QED
        BY <1>2, <2>1, <2>3, <4>1
    <3>. QED
      BY <3>1, <3>2
  <2>. QED
    BY <2>5, <2>6
<1>4. ASSUME NEW r \in Requests, FinishQuery(r)
      PROVE  /\ \A s \in Requests : sessions'[s] # Nothing => Sound(s, sessions'[s])
             /\ \A q \in Requests : progress'[q] = "done" => Kept(q)
  <2>. DEFINE t == post[r].session
              new == Store!WithTurn(sessions[t], r)
  <2>1. /\ progress[r] = "running" /\ post[r].kind = "query" /\ t \in Requests
        /\ sessions[t] # Nothing /\ sessions[t] \in Store!SessionData
        /\ sessions' = [sessions EXCEPT ![t] = new] /\ progress' = [progress EXCEPT ![r] = "done"]
    BY <1>4, FinishedQuery
  <2>2. progress'[r] = "done" /\ post'[r] = post[r]
    BY <1>0, <2>1, DoneStays DEF TypeOK
  <2>3. \A s \in Requests : sessions'[s] = IF s = t THEN new ELSE sessions[s]
    BY <1>0, <2>1 DEF TypeOK
  <2>4. /\ new.corpus_ref = sessions[t].corpus_ref
        /\ \A i \in DOMAIN new.chat_history :
             new.chat_history[i].turn = r \/ (i \in DOMAIN sessions[t].chat_history
                                              /\ new.chat_history[i] = sessions[t].chat_history[i])
        /\ Position(new.chat_history, r) # {}
        /\ \A q \in Requests \ {r} : Position(new.chat_history, q) = Position(sessions[t].chat_history, q)
    <3>1. Position(sessions[t].chat_history, r) = {}
      BY <2>1, NotYet
    <3>. QED
      BY <2>1, <3>1, SessionFacts, AppendFacts
  <2>. HIDE DEF new
  <2>5. Sound(t, new)
    BY <1>1, <2>1, <2>2, <2>4
  <2>6. \A s \in Requests : sessions'[s] # Nothing => Sound(s, sessions'[s])
    <3>. HIDE DEF Sound
    <3>. QED
      BY <1>1, <2>3, <2>5
  <2>7. ASSUME NEW q \in Requests, progress'[q] = "done" PROVE Kept(q)
    <3>1. CASE q = r
      BY <2>1, <2>2, <2>3, <2>4, <3>1
    <3>2. CASE q # r
      <4>1. progress[q] = "done"
        BY <1>0, <2>1, <2>7, <3>2 DEF TypeOK
      <4>. QED
        BY <1>2, <2>3, <2>4, <3>2, <4>1
    <3>. QED
      BY <3>1, <3>2
  <2>. QED
    BY <2>6, <2>7
<1>5. ASSUME sessions' = sessions, \A q \in Requests : progress'[q] = "done" => progress[q] = "done"
      PROVE  /\ \A s \in Requests : sessions'[s] # Nothing => Sound(s, sessions'[s])
             /\ \A q \in Requests : progress'[q] = "done" => Kept(q)
  <2>1. \A s \in Requests : sessions'[s] # Nothing => Sound(s, sessions'[s])
    <3>. HIDE DEF Sound
    <3>. QED
      BY <1>1, <1>5
  <2>. QED
    BY <1>2, <1>5, <2>1
<1>6. \/ \E r \in Requests : HandleUpload(r) \/ FinishQuery(r)
      \/ sessions' = sessions /\ \A q \in Requests : progress'[q] = "done" => progress[q] = "done"
  BY <1>0, StepCases DEF Quiet, Sends, Clear, UploadAnswered, QueryAnswered, GivesUp, BackendUnchanged, vars,
     StartQuery, Reject, TypeOK
<1>. QED
  BY <1>3, <1>4, <1>5, <1>6 DEF SessionsInv, SessionOf

-----------------------------------------------------------------------------
(* The page                                                                *)

LEMMA ShownTurns ==
  ASSUME IInv, NEW i \in DOMAIN ui.chat_history
  PROVE  /\ ui.chat_history[i].turn \in Requests /\ ui.chat_history[i].dataset \in Requests
         /\ progress[ui.chat_history[i].turn] = "done" /\ post[ui.chat_history[i].turn].kind = "query"
         /\ post[ui.chat_history[i].turn].session = ui.session_id
<1>. DEFINE h == ui.chat_history
            Shown == [turn : Requests, dataset : Requests]
<1>1. h \in Seq(Shown)
  BY DEF IInv, TypeOK
<1>. HIDE DEF h, Shown
<1>2. \A k \in DOMAIN h : h[k] \in Shown
  BY <1>1
<1>3. \A k \in DOMAIN h : h[k].turn \in Requests /\ h[k].dataset \in Requests
  BY <1>2 DEF Shown
<1>. QED
  BY <1>3 DEF IInv, PageInv, h

\* With a session, the page names one that the backend has, and a dataset of it.
LEMMA PageFacts ==
  ASSUME IInv
  PROVE  /\ ui.session_id = Nothing => ui.corpus_info = Nothing /\ DOMAIN ui.chat_history = {}
         /\ ui.session_id # Nothing =>
              /\ ui.session_id \in Requests /\ ui.corpus_info \in Requests /\ ui.corpus_info # Nothing
              /\ progress[ui.corpus_info] = "done" /\ post[ui.corpus_info].kind = "upload"
              /\ SessionOf(ui.corpus_info) = ui.session_id /\ sessions[ui.session_id] # Nothing
              /\ ui.uploaded_file_key = FileKey[post[ui.corpus_info].file]
<1>0. TypeOK /\ SessionsInv /\ PageInv
  BY DEF IInv
<1>1. ui.session_id \in Maybe /\ ui.corpus_info \in Maybe
  BY <1>0 DEF TypeOK
<1>2. CASE ui.session_id = Nothing
  BY <1>0, <1>2 DEF PageInv, SessionStateConsistent, NewUi
<1>3. CASE ui.session_id # Nothing
  BY <1>0, <1>1, <1>3 DEF PageInv, SessionStateConsistent, SessionsInv, Maybe
<1>. QED
  BY <1>2, <1>3

LEMMA PageCases ==
  ASSUME IInv, [Next]_vars
  PROVE  \/ ui' = ui \/ Clear \/ UploadAnswered \/ QueryAnswered
BY StepCases DEF IInv, Quiet, Sends, GivesUp, HandleUpload, StartQuery, FinishQuery, Reject, AppUnchanged, vars

LEMMA PageStep == IInv /\ [Next]_vars => PageInv'
<1>. SUFFICES ASSUME IInv, [Next]_vars PROVE PageInv'
  OBVIOUS
<1>0. PageInv
  BY DEF IInv
<1>1. CASE ui' = ui
  <2>1. ui.session_id # Nothing =>
          post'[ui.corpus_info] = post[ui.corpus_info] /\ progress'[ui.corpus_info] = "done"
    BY PageFacts, DoneStays
  <2>2. \A i \in DOMAIN ui.chat_history : /\ progress'[ui.chat_history[i].turn] = "done"
                                          /\ post'[ui.chat_history[i].turn] = post[ui.chat_history[i].turn]
    BY ShownTurns, DoneStays
  <2>3. SessionStateConsistent'
    BY <1>0, <1>1, <2>1, PageFacts DEF SessionStateConsistent, PageInv, SessionOf, NewUi
  <2>. QED
    BY <1>0, <1>1, <2>1, <2>2, <2>3, PageFacts DEF PageInv
<1>2. CASE Clear
  <2>1. ui' = NewUi /\ ui'.session_id = Nothing /\ DOMAIN ui'.chat_history = {}
    BY <1>2 DEF Clear, Cleared, NewUi
  <2>. QED
    BY <2>1 DEF PageInv, SessionStateConsistent, NewUi
<1>3. CASE UploadAnswered
  <2>1. SessionOf(ui.corpus_info)' = SessionOf(waiting) /\ waiting # Nothing /\ SessionOf(waiting) # Nothing
    BY <1>3, AnsweredUpload, NamesAssumption DEF SessionOf
  <2>2. SessionStateConsistent'
    BY <1>3, <2>1, AnsweredUpload DEF SessionStateConsistent
  <2>3. \A i \in DOMAIN ui.chat_history : LET t == ui.chat_history[i].turn IN
          progress[t] = "done" /\ post[t].kind = "query" /\ post[t].session = SessionOf(waiting)
    BY <1>3, AnsweredUpload, ShownTurns, PageFacts
  <2>. QED
    BY <1>3, <2>2, <2>3, AnsweredUpload DEF PageInv
<1>4. CASE QueryAnswered
  <2>. DEFINE n == Len(ui.chat_history)
  <2>1. /\ script = "asking" /\ progress[waiting] = "done" /\ waiting \in Requests /\ ui.corpus_info \in Requests
        /\ ui.session_id \in Requests /\ UNCHANGED <<post, progress, sessions>>
        /\ post[waiting].kind = "query" /\ post[waiting].session = ui.session_id
    BY <1>4, AnsweredQuery, Waited
  <2>2. /\ ui'.session_id = ui.session_id /\ ui'.corpus_info = ui.corpus_info
        /\ ui'.uploaded_file_key = ui.uploaded_file_key
        /\ n \in Nat /\ DOMAIN ui.chat_history = 1..n /\ DOMAIN ui'.chat_history = 1..(n + 1)
        /\ \A i \in 1..n : ui'.chat_history[i] = ui.chat_history[i]
        /\ ui'.chat_history[n + 1].turn = waiting
    BY <1>4, AnsweredQuery, ShownFacts
  <2>3. ui.session_id # Nothing
    BY <2>1, NamesAssumption
  <2>4. SessionStateConsistent'
    BY <2>1, <2>2, <2>3, PageFacts DEF SessionStateConsistent, SessionOf
  <2>5. ASSUME NEW i \in DOMAIN ui'.chat_history
        PROVE  LET t == ui'.chat_history[i].turn
               IN  progress[t] = "done" /\ post[t].kind = "query" /\ post[t].session = ui.session_id
    <3>1. i \in 1..n \/ i = n + 1
      BY <2>2
    <3>. QED
      BY <2>1, <2>2, <3>1, ShownTurns
  <2>. QED
    BY <2>1, <2>2, <2>3, <2>4, <2>5, PageFacts DEF PageInv
<1>. QED
  BY <1>1, <1>2, <1>3, <1>4, PageCases

LEMMA WaitStep == IInv /\ [Next]_vars => WaitInv'
<1>. SUFFICES ASSUME IInv, [Next]_vars PROVE WaitInv'
  OBVIOUS
<1>0. TypeOK /\ WaitInv
  BY DEF IInv
<1>1. \A r \in given_up : progress'[r] # "unused"
  BY <1>0, DoneStays DEF TypeOK, WaitInv
<1>2. waiting # Nothing => /\ waiting \in Requests /\ post'[waiting] = post[waiting]
                           /\ progress[waiting] # "unused" /\ progress'[waiting] # "unused"
  BY <1>0, DoneStays DEF TypeOK, WaitInv, Maybe
<1>3. CASE Quiet \/ Clear
  BY <1>0, <1>1, <1>3 DEF Quiet, Clear, WaitInv
<1>4. ASSUME NEW r \in Requests, NEW kind, NEW file, Sends(r, kind, file),
             \/ kind = "upload" /\ file = widget /\ script' = "uploading"
             \/ kind = "query" /\ script' = "asking"
      PROVE  WaitInv'
  <2>1. waiting' # Nothing /\ progress'[r] = "sent" /\ waiting' = r
    BY <1>4, NamesAssumption DEF Sends
  <2>. QED
    BY <1>1, <1>4, <2>1 DEF Sends, WaitInv
<1>5. CASE UploadAnswered \/ QueryAnswered
  BY <1>1, <1>5, AnsweredUpload, AnsweredQuery DEF WaitInv
<1>6. CASE GivesUp
  BY <1>1, <1>2, <1>6 DEF GivesUp, WaitInv
<1>7. CASE UNCHANGED <<script, waiting, widget, ui, given_up>>
  BY <1>0, <1>1, <1>2, <1>7 DEF WaitInv
<1>. QED
  BY <1>0, <1>3, <1>4, <1>5, <1>6, <1>7, StepCases DEF HandleUpload, StartQuery, FinishQuery, Reject, AppUnchanged, vars

-----------------------------------------------------------------------------
(* The dataset of the page and the corpus of its session                   *)

\* Only an upload changes the corpus of a session, and only the end of a query its history.
LEMMA SessionKept ==
  ASSUME IInv, [Next]_vars, NEW s \in Requests, sessions[s] # Nothing
  PROVE  /\ \/ sessions'[s].corpus_ref = sessions[s].corpus_ref
            \/ \E r \in Requests : HandleUpload(r) /\ SessionOf(r) = s /\ sessions'[s].corpus_ref = r
         /\ \A q \in Requests : FinishQuery(q) \/ Position(sessions'[s].chat_history, q) = Position(sessions[s].chat_history, q)
<1>0. TypeOK
  BY DEF IInv
<1>1. ASSUME NEW r \in Requests, HandleUpload(r)
      PROVE  /\ \/ sessions'[s].corpus_ref = sessions[s].corpus_ref
                \/ SessionOf(r) = s /\ sessions'[s].corpus_ref = r
             /\ sessions'[s].chat_history = sessions[s].chat_history
  <2>1. PICK new \in Store!SessionData :
           /\ SessionOf(r) \in Requests /\ sessions' = [sessions EXCEPT ![SessionOf(r)] = new] /\ new.corpus_ref = r
           /\ \/ SessionOf(r) = r /\ sessions[r] = Nothing
              \/ new.chat_history = sessions[SessionOf(r)].chat_history
    BY <1>1, HandledUpload
  <2>2. sessions'[s] = IF s = SessionOf(r) THEN new ELSE sessions[s]
    BY <1>0, <2>1 DEF TypeOK
  <2>. QED
    BY <2>1, <2>2
<1>2. ASSUME NEW r \in Requests, FinishQuery(r)
      PROVE  /\ sessions'[s].corpus_ref = sessions[s].corpus_ref
             /\ \A q \in Requests \ {r} : Position(sessions'[s].chat_history, q) = Position(sessions[s].chat_history, q)
  <2>. DEFINE t == post[r].session
              new == Store!WithTurn(sessions[t], r)
  <2>1. t \in Requests /\ sessions[t] \in Store!SessionData /\ sessions' = [sessions EXCEPT ![t] = new]
    BY <1>2, FinishedQuery
  <2>2. /\ new.corpus_ref = sessions[t].corpus_ref
        /\ \A q \in Requests \ {r} : Position(new.chat_history, q) = Position(sessions[t].chat_history, q)
    BY <2>1, SessionFacts, AppendFacts
  <2>. HIDE DEF new
  <2>3. sessions'[s] = IF s = t THEN new ELSE sessions[s]
    BY <1>0, <2>1 DEF TypeOK
  <2>. QED
    BY <2>2, <2>3
<1>3. (\E r \in Requests : HandleUpload(r) \/ FinishQuery(r)) \/ sessions' = sessions
  BY <1>0, StepCases DEF Quiet, Sends, Clear, UploadAnswered, QueryAnswered, GivesUp, BackendUnchanged, vars,
     StartQuery, Reject
<1>4. CASE \E r \in Requests : HandleUpload(r)
  BY <1>1, <1>4
<1>5. CASE \E r \in Requests : FinishQuery(r)
  <2>1. PICK r \in Requests : FinishQuery(r)
    BY <1>5
  <2>. QED
    BY <1>2, <2>1
<1>. QED
  BY <1>3, <1>4, <1>5

\* The step of the backend's part that disturbs DatasetInv, and those of the app's.
LEMMA DatasetByBackend ==
  ASSUME IInv, NEW r \in Requests, [Next]_vars, HandleUpload(r) \/ StartQuery(r) \/ FinishQuery(r) \/ Reject(r)
  PROVE  DatasetInv'
<1>0. TypeOK /\ PostsInv /\ SessionsInv /\ WaitInv /\ DatasetInv
  BY DEF IInv
<1>1. UNCHANGED <<script, waiting, widget, ui, post, given_up>>
  BY DEF HandleUpload, StartQuery, FinishQuery, Reject, AppUnchanged
<1>2. progress[r] \in {"sent", "running"} /\ (r = waiting \/ r \in given_up) /\ post'[r] = post[r]
  BY <1>0, <1>1 DEF HandleUpload, StartQuery, FinishQuery, Reject, PostsInv, Pending
<1>3. \A q \in Requests \ {r} : progress'[q] = progress[q] /\ answer_from'[q] = answer_from[q]
  BY <1>0 DEF HandleUpload, StartQuery, FinishQuery, Reject, TypeOK
<1>4. ui.session_id # Nothing =>
        \/ sessions'[ui.session_id].corpus_ref \in {ui.corpus_info} \cup given_up
        \/ script = "uploading" /\ sessions'[ui.session_id].corpus_ref = waiting
  <2>1. ASSUME NEW d \in Requests, HandleUpload(d) PROVE d \in given_up \/ (script = "uploading" /\ d = waiting)
    <3>1. post[d].kind = "upload" /\ (d = waiting \/ d \in given_up)
      BY <1>0, <2>1 DEF HandleUpload, PostsInv, Pending
    <3>2. d = waiting => script \in {"uploading", "asking"}
      BY <1>0, NamesAssumption DEF WaitInv
    <3>. QED
      BY <3>1, <3>2, Waited
  <2>. QED
    BY <1>0, <2>1, PageFacts, SessionKept DEF DatasetInv
<1>5. script = "uploading" /\ progress'[waiting] = "done" =>
        sessions'[SessionOf(waiting)].corpus_ref \in {waiting} \cup given_up
  <2>. SUFFICES ASSUME script = "uploading", progress'[waiting] = "done"
                PROVE  sessions'[SessionOf(waiting)].corpus_ref \in {waiting} \cup given_up
    OBVIOUS
  <2>1. waiting \in Requests /\ post[waiting].kind = "upload"
    BY Waited
  <2>2. CASE progress[waiting] = "done"
    <3>1. SessionOf(waiting) \in Requests /\ sessions[SessionOf(waiting)] # Nothing
      BY <1>0, <2>1, <2>2 DEF SessionsInv, TypeOK, SessionOf, Maybe
    <3>2. \A d \in Requests : HandleUpload(d) => d \in {waiting} \cup given_up
      BY <1>0 DEF HandleUpload, PostsInv, Pending
    <3>. QED
      BY <1>0, <2>2, <3>1, <3>2, SessionKept DEF DatasetInv
  <2>3. CASE progress[waiting] # "done"
    <3>1. r = waiting
      BY <1>3, <2>1, <2>3
    <3>2. HandleUpload(r)
      BY <1>0, <2>1, <3>1 DEF StartQuery, FinishQuery, Reject, TypeOK, PostsInv
    <3>3. PICK new \in Store!SessionData :
             SessionOf(r) \in Requests /\ sessions' = [sessions EXCEPT ![SessionOf(r)] = new] /\ new.corpus_ref = r
      BY <3>2, HandledUpload
    <3>. QED
      BY <1>0, <3>1, <3>3 DEF TypeOK
  <2>. QED
    BY <2>2, <2>3
<1>6. script = "asking" /\ progress'[waiting] \in {"running", "done"} =>
        answer_from'[waiting] \in {ui.corpus_info} \cup given_up
  <2>. SUFFICES ASSUME script = "asking", progress'[waiting] \in {"running", "done"}
                PROVE  answer_from'[waiting] \in {ui.corpus_info} \cup given_up
    OBVIOUS
  <2>1. /\ waiting \in Requests /\ post[waiting].kind = "query" /\ post[waiting].session = ui.session_id
        /\ ui.session_id \in Requests
    BY Waited
  <2>2. CASE progress[waiting] = "sent"
    <3>1. r = waiting
      BY <1>3, <2>1, <2>2
    <3>2. StartQuery(r)
      BY <1>0, <2>1, <2>2, <3>1 DEF HandleUpload, FinishQuery, Reject, TypeOK
    <3>3. answer_from'[r] = sessions[ui.session_id].corpus_ref
      BY <1>0, <2>1, <3>1, <3>2 DEF StartQuery, TypeOK
    <3>. QED
      BY <1>0, <2>1, <3>1, <3>3, NamesAssumption DEF DatasetInv
  <2>3. CASE progress[waiting] # "sent"
    <3>1. progress[waiting] \in {"running", "done"} /\ answer_from'[waiting] = answer_from[waiting]
      BY <1>0, <1>3, <2>1, <2>3 DEF HandleUpload, StartQuery, FinishQuery, Reject, TypeOK
    <3>. QED
      BY <1>0, <3>1 DEF DatasetInv
  <2>. QED
    BY <2>2, <2>3
<1>7. MismatchNeedsLostUpload'
  <2>1. \A i \in DOMAIN ui.chat_history : answer_from'[ui.chat_history[i].turn] = answer_from[ui.chat_history[i].turn]
    BY ShownTurns, DoneStays
  <2>. QED
    BY <1>0, <1>1, <2>1 DEF DatasetInv, MismatchNeedsLostUpload
<1>8. SessionOf(waiting)' = SessionOf(waiting)
  BY <1>1 DEF SessionOf
<1>. QED
  BY <1>1, <1>4, <1>5, <1>6, <1>7, <1>8 DEF DatasetInv

LEMMA DatasetStep == IInv /\ [Next]_vars => DatasetInv'
<1>. SUFFICES ASSUME IInv, [Next]_vars PROVE DatasetInv'
  OBVIOUS
<1>0. TypeOK /\ SessionsInv /\ WaitInv /\ DatasetInv
  BY DEF IInv
<1>1. CASE Quiet
  BY <1>0, <1>1 DEF Quiet, DatasetInv, MismatchNeedsLostUpload
<1>2. CASE Clear
  <2>1. ui'.session_id = Nothing /\ DOMAIN ui'.chat_history = {} /\ script' = "sidebar"
    BY <1>2 DEF Clear, Cleared, NewUi
  <2>. QED
    BY <2>1 DEF DatasetInv, MismatchNeedsLostUpload
<1>3. CASE \E r \in Requests : \E kind, file : Sends(r, kind, file)
  <2>1. progress'[waiting'] = "sent"
    BY <1>3 DEF Sends
  <2>. QED
    BY <1>0, <1>3, <2>1 DEF Sends, DatasetInv, MismatchNeedsLostUpload
<1>4. CASE UploadAnswered
  BY <1>0, <1>4, AnsweredUpload DEF DatasetInv, MismatchNeedsLostUpload
<1>5. CASE QueryAnswered
  <2>. DEFINE n == Len(ui.chat_history)
  <2>1. /\ script = "asking" /\ progress[waiting] = "done" /\ waiting \in Requests /\ ui.corpus_info \in Requests
        /\ UNCHANGED <<answer_from, sessions, given_up>> /\ script' = "idle"
    BY <1>5, AnsweredQuery
  <2>2. /\ ui'.session_id = ui.session_id /\ ui'.corpus_info = ui.corpus_info
        /\ n \in Nat /\ DOMAIN ui.chat_history = 1..n /\ DOMAIN ui'.chat_history = 1..(n + 1)
        /\ \A i \in 1..n : ui'.chat_history[i] = ui.chat_history[i]
        /\ ui'.chat_history[n + 1].turn = waiting /\ ui'.chat_history[n + 1].dataset = ui.corpus_info
    BY <1>5, AnsweredQuery, ShownFacts
  <2>3. ASSUME NEW i \in DOMAIN ui'.chat_history
        PROVE  answer_from[ui'.chat_history[i].turn] \in {ui'.chat_history[i].dataset} \cup given_up
    <3>1. i \in 1..n \/ i = n + 1
      BY <2>2
    <3>. QED
      BY <1>0, <2>1, <2>2, <3>1 DEF DatasetInv, MismatchNeedsLostUpload
  <2>. QED
    BY <1>0, <2>1, <2>2, <2>3 DEF DatasetInv, MismatchNeedsLostUpload
<1>6. CASE GivesUp
  <2>1. ui.session_id # Nothing => sessions[ui.session_id].corpus_ref \in {ui.corpus_info} \cup given_up'
    <3>1. ui.session_id # Nothing => progress[sessions[ui.session_id].corpus_ref] = "done"
      BY <1>0, PageFacts DEF SessionsInv
    <3>. QED
      BY <1>0, <1>6, <3>1 DEF DatasetInv, GivesUp
  <2>. QED
    BY <1>0, <1>6, <2>1 DEF DatasetInv, GivesUp, MismatchNeedsLostUpload
<1>7. CASE UNCHANGED vars
  BY <1>0, <1>7 DEF vars, DatasetInv, MismatchNeedsLostUpload, SessionOf
<1>8. CASE \E r \in Requests : HandleUpload(r) \/ StartQuery(r) \/ FinishQuery(r) \/ Reject(r)
  BY <1>8, DatasetByBackend
<1>. QED
  BY <1>0, <1>1, <1>2, <1>3, <1>4, <1>5, <1>6, <1>7, <1>8, StepCases

-----------------------------------------------------------------------------
(* The turns on the page and the history of the session                    *)

\* Where the turns of the page are recorded does not change.
LEMMA RecordsStay ==
  ASSUME IInv, [Next]_vars, NEW i \in DOMAIN ui.chat_history
  PROVE  /\ ui.session_id \in Requests /\ sessions[ui.session_id] # Nothing
         /\ Position(sessions'[ui.session_id].chat_history, ui.chat_history[i].turn)
              = Position(sessions[ui.session_id].chat_history, ui.chat_history[i].turn)
<1>1. ui.session_id \in Requests /\ sessions[ui.session_id] # Nothing
  BY PageFacts
<1>2. ~FinishQuery(ui.chat_history[i].turn)
  BY ShownTurns DEF FinishQuery
<1>. QED
  BY <1>1, <1>2, ShownTurns, SessionKept

LEMMA ShownStep == IInv /\ [Next]_vars => ShownTurnsAreRecorded'
<1>. SUFFICES ASSUME IInv, [Next]_vars PROVE ShownTurnsAreRecorded'
  OBVIOUS
<1>0. ShownTurnsAreRecorded
  BY DEF IInv, OrderInv
<1>. DEFINE h == ui.chat_history
<1>a. \A i \in DOMAIN h : \A j \in 1..(i - 1) : j \in DOMAIN h
  <2>1. h \in Seq([turn : Requests, dataset : Requests])
    BY DEF IInv, TypeOK
  <2>. HIDE DEF h
  <2>2. Len(h) \in Nat /\ DOMAIN h = 1..Len(h)
    BY <2>1
  <2>. QED
    BY <2>2
<1>b. \A i \in DOMAIN h : Position(sessions'[ui.session_id].chat_history, h[i].turn)
                            = Position(sessions[ui.session_id].chat_history, h[i].turn)
  BY RecordsStay
<1>1. CASE ui' = ui
  BY <1>0, <1>1, <1>a, <1>b DEF ShownTurnsAreRecorded
<1>2. CASE Clear
  <2>1. DOMAIN ui'.chat_history = {}
    BY <1>2 DEF Clear, Cleared, NewUi
  <2>. QED
    BY <2>1 DEF ShownTurnsAreRecorded
<1>3. CASE UploadAnswered
  <2>1. /\ ui'.chat_history = ui.chat_history
        /\ \A i \in DOMAIN ui.chat_history : ui'.session_id = ui.session_id
    BY <1>3, AnsweredUpload, PageFacts
  <2>. QED
    BY <1>0, <1>a, <1>b, <2>1 DEF ShownTurnsAreRecorded
<1>4. CASE QueryAnswered
  <2>. DEFINE n == Len(ui.chat_history)
              recorded(k) == Position(sessions[ui.session_id].chat_history, ui'.chat_history[k].turn)
  <2>1. /\ script = "asking" /\ progress[waiting] = "done" /\ waiting \in Requests /\ sessions' = sessions
        /\ post[waiting].kind = "query" /\ post[waiting].session = ui.session_id
    BY <1>4, AnsweredQuery, Waited
  <2>2. /\ ui'.session_id = ui.session_id
        /\ n \in Nat /\ DOMAIN ui.chat_history = 1..n /\ DOMAIN ui'.chat_history = 1..(n + 1)
        /\ \A i \in 1..n : ui'.chat_history[i] = ui.chat_history[i]
        /\ ui'.chat_history[n + 1].turn = waiting
    BY <1>4, AnsweredQuery, ShownFacts
  <2>3. /\ recorded(n + 1) # {}
        /\ \A i \in 1..n : \A p \in recorded(i), q \in recorded(n + 1) : p < q
    BY <2>1, <2>2 DEF IInv, SessionsInv, OrderInv
  <2>4. \A i \in 1..n : recorded(i) # {} /\ \A j \in 1..(i - 1) : \A p \in recorded(i), q \in recorded(j) : q < p
    <3>1. \A i \in 1..n : recorded(i) = Position(sessions[ui.session_id].chat_history, ui.chat_history[i].turn)
      BY <2>2
    <3>2. \A i \in 1..n : \A j \in 1..(i - 1) : j \in 1..n
      BY <2>2
    <3>. QED
      BY <1>0, <2>2, <3>1, <3>2 DEF ShownTurnsAreRecorded
  <2>. HIDE DEF recorded
  <2>5. \A i \in 1..(n + 1) : recorded(i) # {} /\ \A j \in 1..(i - 1) : \A p \in recorded(i), q \in recorded(j) : q < p
    <3>1. \A i \in 1..(n + 1) : i \in 1..n \/ (i = n + 1 /\ \A j \in 1..(i - 1) : j \in 1..n)
      BY <2>2
    <3>. QED
      BY <2>3, <2>4, <3>1
  <2>. QED
    BY <2>1, <2>2, <2>5 DEF recorded, ShownTurnsAreRecorded
<1>. QED
  BY <1>1, <1>2, <1>3, <1>4, PageCases

LEMMA OrderStep == IInv /\ [Next]_vars => OrderInv'
<1>. SUFFICES ASSUME IInv, [Next]_vars, script' = "asking",
                     NEW i \in DOMAIN ui'.chat_history,
                     NEW p \in Position(sessions'[ui'.session_id].chat_history, ui'.chat_history[i].turn),
                     NEW q \in Position(sessions'[ui'.session_id].chat_history, waiting')
              PROVE  p < q
  BY ShownStep DEF OrderInv
<1>0. TypeOK /\ OrderInv
  BY DEF IInv
<1>1. ui' = ui
  BY <1>0, PageCases DEF Clear, UploadAnswered, QueryAnswered
<1>2. /\ ui.session_id \in Requests /\ sessions[ui.session_id] # Nothing
      /\ p \in Position(sessions[ui.session_id].chat_history, ui.chat_history[i].turn)
  BY <1>1, RecordsStay
<1>3. CASE \E r \in Requests : Sends(r, "query", Nothing)
  <2>1. PICK r \in Requests : Sends(r, "query", Nothing)
    BY <1>3
  <2>2. waiting' = r /\ sessions' = sessions /\ Position(sessions[ui.session_id].chat_history, r) = {}
    BY <1>2, <2>1, NotYet DEF Sends
  <2>. QED
    BY <1>1, <2>2
<1>4. CASE script = "asking" /\ waiting' = waiting
  <2>1. waiting \in Requests /\ post[waiting].session = ui.session_id
    BY <1>4, Waited
  <2>2. CASE FinishQuery(waiting)
    <3>. DEFINE session == sessions[ui.session_id]
    <3>1. /\ session \in Store!SessionData /\ progress[waiting] # "done"
          /\ sessions' = [sessions EXCEPT ![ui.session_id] = Store!WithTurn(session, waiting)]
      BY <2>1, <2>2, FinishedQuery
    <3>2. Position(session.chat_history, waiting) = {}
      BY <1>2, <2>1, <3>1, NotYet
    <3>3. sessions'[ui.session_id] = Store!WithTurn(session, waiting)
      BY <1>0, <1>2, <3>1 DEF TypeOK
    <3>. HIDE DEF session
    <3>4. /\ Len(session.chat_history) \in Nat
          /\ \A t : \A k \in Position(session.chat_history, t) : k \in 1..Len(session.chat_history)
          /\ Position(Store!WithTurn(session, waiting).chat_history, waiting) = {Len(session.chat_history) + 1}
      BY <2>1, <3>1, <3>2, AppendFacts
    <3>5. q = Len(session.chat_history) + 1
      BY <1>1, <1>4, <3>3, <3>4
    <3>6. p \in 1..Len(session.chat_history)
      BY <1>2, <3>4 DEF session
    <3>. QED
      BY <3>4, <3>5, <3>6
  <2>3. CASE ~FinishQuery(waiting)
    <3>1. q \in Position(sessions[ui.session_id].chat_history, waiting)
      BY <1>1, <1>2, <1>4, <2>1, <2>3, SessionKept
    <3>. QED
      BY <1>0, <1>1, <1>2, <1>4, <3>1 DEF OrderInv
  <2>. QED
    BY <2>2, <2>3
<1>. QED
  BY <1>0, <1>3, <1>4, StepCases DEF Quiet, Clear, UploadAnswered, QueryAnswered, GivesUp, HandleUpload, StartQuery,
     FinishQuery, Reject, AppUnchanged, vars

-----------------------------------------------------------------------------
(* The uploader's file                                                     *)

LEMMA FailedStays ==
  ASSUME IInv, [Next]_vars, NEW f, Failed(f)
  PROVE  Failed(f)'
<1>1. PICK r \in Requests : /\ post[r].kind = "upload" /\ post[r].file = f
                            /\ r \in given_up \/ progress[r] = "rejected"
  BY DEF Failed
<1>2. progress[r] # "unused"
  BY <1>1 DEF IInv, WaitInv
<1>3. post'[r] = post[r] /\ (progress[r] = "rejected" => progress'[r] = "rejected")
  BY <1>2, DoneStays
<1>4. given_up \subseteq given_up'
  BY StepCases DEF IInv, Quiet, Sends, Clear, UploadAnswered, QueryAnswered, GivesUp, HandleUpload, StartQuery,
     FinishQuery, Reject, AppUnchanged, vars
<1>. QED
  BY <1>1, <1>3, <1>4 DEF Failed

LEMMA WidgetStep == IInv /\ [Next]_vars => WidgetInv'
<1>. DEFINE Same(f) == FileKey[post[ui.corpus_info].file] = FileKey[f]
<1>. SUFFICES ASSUME IInv, [Next]_vars, script' \in {"idle", "settings", "asking"}, widget' # Nothing,
                     ui'.corpus_info # Nothing, post'[ui'.corpus_info].file # widget'
              PROVE  Failed(widget)' \/ FileKey[post'[ui'.corpus_info].file] = FileKey[widget']
  BY DEF WidgetInv
<1>0. TypeOK /\ WidgetInv /\ WaitInv
  BY DEF IInv
<1>1. ui.corpus_info # Nothing =>
        /\ post'[ui.corpus_info] = post[ui.corpus_info]
        /\ ui.uploaded_file_key = FileKey[post[ui.corpus_info].file]
  BY PageFacts, DoneStays
<1>2. ASSUME widget' = widget, Failed(widget) PROVE Failed(widget)'
  <2>1. PICK f : f = widget
    OBVIOUS
  <2>2. Failed(f)'
    BY <1>2, <2>1, FailedStays
  <2>. QED
    BY <1>2, <2>1, <2>2 DEF Failed
<1>3. ASSUME ui'.corpus_info = ui.corpus_info, widget' = widget, script \in {"idle", "settings", "asking"}
      PROVE  Failed(widget)' \/ FileKey[post'[ui'.corpus_info].file] = FileKey[widget']
  BY <1>0, <1>1, <1>2, <1>3 DEF WidgetInv
<1>4. CASE Quiet
  <2>1. CASE script' = "settings" /\ ~NewFile /\ widget' = widget
    BY <1>1, <1>4, <2>1 DEF Quiet, NewFile
  <2>2. CASE script = "settings" /\ widget' = widget
    BY <1>3, <1>4, <2>2 DEF Quiet
  <2>. QED
    BY <1>4, <2>1, <2>2 DEF Quiet
<1>5. CASE \E r \in Requests : Sends(r, "query", Nothing) /\ script = "settings"
  BY <1>3, <1>5 DEF Sends
<1>6. CASE UploadAnswered
  <2>1. post[waiting].file = widget
    BY <1>6, AnsweredUpload, Waited
  <2>. QED
    BY <1>6, <2>1, AnsweredUpload
<1>7. CASE QueryAnswered
  <2>1. ui'.corpus_info = ui.corpus_info /\ widget' = widget /\ script = "asking"
    BY <1>7, AnsweredQuery, ShownFacts
  <2>. QED
    BY <1>3, <2>1
<1>8. CASE GivesUp
  <2>1. script \in {"uploading", "asking"}
    BY <1>0, <1>8 DEF GivesUp, WaitInv
  <2>2. CASE script = "asking"
    BY <1>3, <1>8, <2>2 DEF GivesUp
  <2>3. CASE script = "uploading"
    <3>1. waiting \in Requests /\ post[waiting].kind = "upload" /\ post[waiting].file = widget
      BY <2>3, Waited
    <3>. QED
      BY <1>8, <3>1 DEF GivesUp, Failed
  <2>. QED
    BY <2>1, <2>2, <2>3
<1>9. CASE UNCHANGED <<script, widget, ui>>
  BY <1>3, <1>9
<1>. QED
  BY <1>0, <1>4, <1>5, <1>6, <1>7, <1>8, <1>9, StepCases DEF Clear, HandleUpload, StartQuery,
     FinishQuery, Reject, AppUnchanged, vars

-----------------------------------------------------------------------------
(* The theorems                                                            *)

\* The invariant holds throughout: what the page names and shows comes from requests that are
\* done, whatever is sent, given up, carried out late or cleared in between.
THEOREM Invariance == Spec => []IInv
<1>1. IInv /\ [Next]_vars => IInv'
  BY TypeStep, PostsStep, SessionsStep, PageStep, WaitStep, DatasetStep, ShownStep, OrderStep, WidgetStep DEF IInv
<1>. QED
  BY InitInv, <1>1, PTL DEF Spec

\* Every variable keeps its type.
THEOREM TypeCorrect == Spec => []TypeOK
<1>1. IInv => TypeOK
  BY DEF IInv
<1>. QED
  BY <1>1, Invariance, PTL

\* st.session_state is all of a session, its dataset and the key of its file, or nothing.
THEOREM StateIsConsistent == Spec => []SessionStateConsistent
<1>1. IInv => SessionStateConsistent
  BY DEF IInv, PageInv
<1>. QED
  BY <1>1, Invariance, PTL

\* The backend has every turn that the page shows, in the order of the page.
THEOREM TurnsAreRecorded == Spec => []ShownTurnsAreRecorded
<1>1. IInv => ShownTurnsAreRecorded
  BY DEF IInv, OrderInv
<1>. QED
  BY <1>1, Invariance, PTL

\* Between runs the page's dataset is the uploader's file, but for a failed upload or an equal key.
THEOREM DatasetFollowsWidget == Spec => []DatasetIsWidgetsFile
<1>1. IInv => DatasetIsWidgetsFile
  BY DEF IInv, WidgetInv, DatasetIsWidgetsFile
<1>. QED
  BY <1>1, Invariance, PTL

\* An answer is about the dataset that the page names, or about one whose upload it gave up on.
THEOREM MismatchIsLostUpload == Spec => []MismatchNeedsLostUpload
<1>1. IInv => MismatchNeedsLostUpload
  BY DEF IInv, DatasetInv
<1>. QED
  BY <1>1, Invariance, PTL
=============================================================================
