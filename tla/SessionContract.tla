--------------------------- MODULE SessionContract --------------------------
(***************************************************************************)
(* What the shell promises the two ends of a session, with no goroutine,   *)
(* channel, close frame or profile: the application's Session gets the     *)
(* client's frames one at a time, in order and without a gap, the client   *)
(* gets the session's events likewise, the session is closed once before   *)
(* the request is over, and from then on every call to it has a context    *)
(* that has ended.  WsHandler is shown to implement this specification.    *)
(***************************************************************************)
EXTENDS Naturals, Sequences

CONSTANTS Conns,    \* upgrade requests, each with at most one session
          Inputs,   \* what a client's frame may carry
          Outputs   \* what a session's event may be

VARIABLES opened,   \* requests that have a session
          closes,   \* how often each session has been closed
          ended,    \* requests whose context has ended
          gone,     \* requests that are over
          given,    \* what the client has sent
          got,      \* what of it was taken for the session
          busy,     \* sessions that have not yet returned from what they got
          made,     \* what the session has produced
          shown     \* what of it the client was sent

sessionVars == <<opened, closes, ended, gone, given, got, busy, made, shown>>

SessionInit ==
  /\ opened = {} /\ ended = {} /\ gone = {} /\ busy = {}
  /\ closes = [c \in Conns |-> 0]
  /\ given = [c \in Conns |-> <<>>] /\ got = [c \in Conns |-> <<>>]
  /\ made = [c \in Conns |-> <<>>] /\ shown = [c \in Conns |-> <<>>]

\* to has one more element than it had, the next one of from.
Passes(c, from, to) ==
  /\ Len(to[c]) < Len(from[c])
  /\ to' = [to EXCEPT ![c] = Append(@, from[c][Len(@) + 1])]

Open(c) ==
  /\ c \notin opened \cup gone
  /\ opened' = opened \cup {c}
  /\ UNCHANGED <<closes, ended, gone, given, got, busy, made, shown>>

Give(c) ==
  /\ \E input \in Inputs : given' = [given EXCEPT ![c] = Append(@, input)]
  /\ UNCHANGED <<opened, closes, ended, gone, got, busy, made, shown>>

Take(c) ==
  /\ c \in opened \ (gone \cup busy)
  /\ closes[c] > 0 => c \in ended
  /\ Passes(c, given, got)
  /\ busy' = busy \cup {c}
  /\ UNCHANGED <<opened, closes, ended, gone, given, made, shown>>

Return(c) ==
  /\ busy' = busy \ {c}
  /\ UNCHANGED <<opened, closes, ended, gone, given, got, made, shown>>

Make(c) ==
  /\ c \in opened
  /\ \E output \in Outputs : made' = [made EXCEPT ![c] = Append(@, output)]
  /\ UNCHANGED <<opened, closes, ended, gone, given, got, busy, shown>>

Show(c) ==
  /\ c \notin gone
  /\ Passes(c, made, shown)
  /\ UNCHANGED <<opened, closes, ended, gone, given, got, busy, made>>

EndContext(c) ==
  /\ ended' = ended \cup {c}
  /\ UNCHANGED <<opened, closes, gone, given, got, busy, made, shown>>

Close(c) ==
  /\ c \in opened \ gone
  /\ closes[c] = 0
  /\ c \in busy => c \in ended
  /\ closes' = [closes EXCEPT ![c] = 1]
  /\ UNCHANGED <<opened, ended, gone, given, got, busy, made, shown>>

Leave(c) ==
  /\ c \in opened => closes[c] = 1
  /\ gone' = gone \cup {c}
  /\ ended' = ended \cup {c}
  /\ UNCHANGED <<opened, closes, given, got, busy, made, shown>>

SessionNext ==
  \E c \in Conns : \/ Open(c) \/ Give(c) \/ Take(c) \/ Return(c) \/ Make(c) \/ Show(c)
                   \/ EndContext(c) \/ Close(c) \/ Leave(c)

SessionSpec == SessionInit /\ [][SessionNext]_sessionVars
=============================================================================
