----------------------------- MODULE SessionStore -----------------------------
(***************************************************************************)
(* What backend/session.py promises its callers: sessions keyed by id, and *)
(* five operations on them (get and exists change nothing) that each take  *)
(* effect at once.  SessionBackend implements the operations as a GET and  *)
(* a SET of the whole session and refines this module.                     *)
(*                                                                         *)
(* Requests name everything an upload or a query creates: the session and  *)
(* the corpus an upload makes (uuid4 in the code), the profile computed    *)
(* from that corpus, and the turn a query adds to the history.             *)
(***************************************************************************)
EXTENDS Sequences

CONSTANTS Requests, Nothing

VARIABLE redis   \* session id -> SessionData, Nothing where the key does not exist

Maybe == Requests \cup {Nothing}
Turns == [role : {"user", "assistant"}, turn : Requests]
SessionData == [corpus_ref : Maybe, profile : Maybe, chat_history : Seq(Turns)]

NewSession == [corpus_ref |-> Nothing, profile |-> Nothing, chat_history |-> <<>>]

\* What each operation does to the SessionData it has fetched.
WithCorpus(session, ref, prof) == [session EXCEPT !.corpus_ref = ref, !.profile = prof]
WithProfile(session, prof)     == [session EXCEPT !.profile = prof]
WithTurn(session, r) ==
  [session EXCEPT !.chat_history = @ \o << [role |-> "user", turn |-> r],
                                           [role |-> "assistant", turn |-> r] >>]

Recorded(r) == \E s \in Requests : /\ redis[s] # Nothing
                                   /\ \E i \in DOMAIN redis[s].chat_history :
                                        redis[s].chat_history[i].turn = r

Init == redis = [s \in Requests |-> Nothing]

Create(s) == redis[s] = Nothing /\ redis' = [redis EXCEPT ![s] = NewSession]

\* A new upload replaces the corpus and, with it, the profile.
SetCorpus(s, ref) ==
  redis[s] # Nothing /\ redis' = [redis EXCEPT ![s] = WithCorpus(@, ref, ref)]

UpdateProfile(s, prof) ==
  redis[s] # Nothing /\ redis' = [redis EXCEPT ![s] = WithProfile(@, prof)]

\* A turn is appended once, to one session.
AppendTurn(s, r) ==
  redis[s] # Nothing /\ ~Recorded(r) /\ redis' = [redis EXCEPT ![s] = WithTurn(@, r)]

Next == \E s, r \in Requests :
          Create(s) \/ SetCorpus(s, r) \/ UpdateProfile(s, r) \/ AppendTurn(s, r)

Spec == Init /\ [][Next]_redis
=============================================================================
