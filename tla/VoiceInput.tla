------------------------------ MODULE VoiceInput ------------------------------
(***************************************************************************)
(* Voice input of the console: a recording whose last seconds are          *)
(* transcribed every now and then while it goes on (previews), and as a    *)
(* whole when it ends (final).  The transcripts come from a command that   *)
(* the server runs for every request.                                      *)
(***************************************************************************)
EXTENDS Naturals, FiniteSets

CONSTANTS MaxRecordings, MaxRequests

VARIABLES
    voiceState, \* "idle", "recording" or "transcribing"
    asking,     \* calls of toggleVoiceInput that wait for the microphone
    mics,       \* the recordings whose microphone is open
    timers,     \* the recordings whose preview timer runs
    mic,        \* voiceStreamRef and its companions: the recording they belong to, 0 if none
    recordings, \* how many there have been
    heard,      \* voiceSamplesRef holds enough for a preview
    flags,      \* the refs Finalizing, InFlight and Pending that are set
    previewSeq,
    promise,    \* voicePreviewPromiseRef: the request it stands for, 0 if none
    transcripts,\* the requests under way: kind, number, recording, is the answer there
    requested,
    ending,     \* the call of finalizeVoiceRecording under way: the request it awaits
    spoken,     \* what the draft shows: the recording, and is it the final transcript
    overlapped  \* the user has clicked again while the microphone was awaited

voiceVars == <<voiceState, asking, mics, timers, mic, recordings, heard, flags, previewSeq,
    promise, transcripts, requested, ending, spoken, overlapped>>

Nothing == [of |-> 0, final |-> FALSE]

Init ==
    /\ voiceState = "idle"
    /\ asking = 0
    /\ mics = {} /\ timers = {} /\ mic = 0
    /\ recordings = 0
    /\ heard = FALSE
    /\ flags = {}
    /\ previewSeq = 0 /\ promise = 0
    /\ transcripts = {} /\ requested = 0
    /\ ending = {}
    /\ spoken = Nothing
    /\ overlapped = FALSE

-----------------------------------------------------------------------------
Mic == <<asking, mics, timers, mic, recordings>>

\* A click while nothing is recorded; the state changes only when the microphone is
\* there, so a second click is another call.
ToggleOn ==
    /\ voiceState = "idle" /\ recordings + asking < MaxRecordings
    /\ asking' = asking + 1
    /\ overlapped' = (overlapped \/ asking > 0)
    /\ UNCHANGED <<voiceState, mics, timers, mic, recordings, heard, flags, previewSeq,
                   promise, transcripts, requested, ending, spoken>>

MicOpens ==
    LET r == recordings + 1
    IN  /\ asking > 0
        /\ asking' = asking - 1
        /\ recordings' = r
        /\ mics' = mics \cup {r} /\ timers' = timers \cup {r} /\ mic' = r
        /\ heard' = FALSE
        /\ flags' = {}
        /\ previewSeq' = previewSeq + 1
        /\ promise' = 0
        /\ voiceState' = "recording"
        /\ UNCHANGED <<transcripts, requested, ending, spoken,
                   overlapped>>

\* stopVoiceStream: of the recording that the refs are about.
StopVoiceStream ==
    /\ mics' = mics \ {mic}
    /\ timers' = timers \ {mic}
    /\ mic' = 0

MicFails ==
    /\ asking > 0
    /\ asking' = asking - 1
    /\ StopVoiceStream
    /\ voiceState' = "idle"
    /\ flags' = flags \ {"finalizing"}
    /\ UNCHANGED <<recordings, heard, previewSeq, promise, transcripts, requested, ending,
                   spoken, overlapped>>

Samples ==
    /\ mics # {} /\ ~heard
    /\ heard' = TRUE
    /\ UNCHANGED <<Mic, voiceState, flags, previewSeq, promise, transcripts, requested,
                   ending, spoken,
                   overlapped>>

\* The server's answer to a request: a text, or an error when the command fails, runs
\* out of time or prints nothing (transcribeVoiceAudio).
Transcribed(q) == transcripts' = (transcripts \ {q}) \cup {[q EXCEPT !.answer = "text"]}
TranscribeFails(q) == transcripts' = (transcripts \ {q}) \cup {[q EXCEPT !.answer = "error"]}
Transcribe(q) ==
    /\ q.answer = "none"
    /\ Transcribed(q) \/ TranscribeFails(q)
    /\ UNCHANGED <<Mic, voiceState, heard, flags, previewSeq, promise, requested, ending,
                   spoken, overlapped>>

Request(final, seq) ==
    /\ requested < MaxRequests
    /\ requested' = requested + 1
    /\ transcripts' = transcripts \cup
           {[id |-> requested + 1, final |-> final, seq |-> seq, of |-> recordings,
             answer |-> "none"]}

\* requestVoicePreview, called by a timer.
RequestVoicePreview ==
    /\ timers # {} /\ "finalizing" \notin flags
    /\ \/ /\ "inFlight" \in flags
          /\ flags' = flags \cup {"pending"}
          /\ UNCHANGED <<previewSeq, promise, transcripts, requested>>
       \/ /\ "inFlight" \notin flags /\ heard
          /\ flags' = (flags \cup {"inFlight"}) \ {"pending"}
          /\ previewSeq' = previewSeq + 1
          /\ Request(FALSE, previewSeq + 1)
          /\ promise' = requested + 1
    /\ UNCHANGED <<Mic, voiceState, heard, ending, spoken, overlapped>>

\* Only the latest preview of a recording that goes on changes the draft.  The request
\* for another one that was put off is not made: the closure that looks at voiceState
\* is that of the render in which the recording was started.
PreviewArrives(q) ==
    /\ ~q.final /\ q.answer # "none"
    /\ transcripts' = transcripts \ {q}
    /\ spoken' = IF q.answer = "text" /\ "finalizing" \notin flags /\ q.seq = previewSeq
                 THEN [of |-> q.of, final |-> FALSE] ELSE spoken
    /\ flags' = flags \ {"inFlight"}
    /\ UNCHANGED <<Mic, voiceState, heard, previewSeq, promise, requested, ending,
                   overlapped>>

\* finalizeVoiceRecording, up to the await for the preview that is under way.
ToggleOff ==
    /\ voiceState = "recording" /\ "finalizing" \notin flags
    /\ flags' = (flags \cup {"finalizing"}) \ {"pending"}
    /\ voiceState' = "transcribing"
    /\ previewSeq' = previewSeq + 1
    /\ StopVoiceStream
    /\ ending' = ending \cup {[awaits |-> promise, sent |-> 0]}
    /\ UNCHANGED <<asking, recordings, heard, promise, transcripts, requested, spoken,
                   overlapped>>

\* Mutant: the preview is not awaited.
SendFinalAtOnce(e) ==
    /\ e.sent = 0
    /\ Request(TRUE, 0)
    /\ ending' = (ending \ {e}) \cup {[e EXCEPT !.sent = requested + 1]}
    /\ UNCHANGED <<Mic, voiceState, heard, flags, previewSeq, promise, spoken, overlapped>>

\* ... up to the request for the whole; a recording without a sample is a WAV header,
\* so the way out for an empty one is never taken.
SendFinal(e) ==
    /\ e.sent = 0 /\ \A q \in transcripts : q.id # e.awaits
    /\ Request(TRUE, 0)
    /\ ending' = (ending \ {e}) \cup {[e EXCEPT !.sent = requested + 1]}
    /\ UNCHANGED <<Mic, voiceState, heard, flags, previewSeq, promise, spoken, overlapped>>

FinalArrives(e, q) ==
    /\ q.id = e.sent /\ q.answer # "none"
    /\ transcripts' = transcripts \ {q}
    /\ ending' = ending \ {e}
    /\ spoken' = IF q.answer = "text" THEN [of |-> q.of, final |-> TRUE] ELSE spoken
    /\ heard' = FALSE
    /\ promise' = 0
    /\ flags' = {}
    /\ voiceState' = "idle"
    /\ UNCHANGED <<Mic, previewSeq, requested, overlapped>>

Next ==
    \/ ToggleOn \/ MicOpens \/ MicFails \/ Samples \/ RequestVoicePreview \/ ToggleOff
    \/ \E q \in transcripts : Transcribe(q) \/ PreviewArrives(q)
    \/ \E e \in ending : SendFinal(e) \/ \E q \in transcripts : FinalArrives(e, q)

-----------------------------------------------------------------------------
TypeOK ==
    /\ voiceState \in {"idle", "recording", "transcribing"}
    /\ asking \in 0 .. MaxRecordings
    /\ mics \subseteq 1 .. MaxRecordings /\ timers \subseteq mics
    /\ mic \in mics \cup {0}
    /\ flags \subseteq {"finalizing", "inFlight", "pending"}
    /\ Cardinality(ending) <= MaxRecordings
    /\ spoken.of \in 0 .. MaxRecordings

\* When the console is idle again nothing of a recording is left: the microphone is
\* closed, no timer runs, no answer can come that would change the draft, unless the
\* user clicked again while the microphone was awaited (toggleVoiceInput,
\* finalizeVoiceRecording).
IdleIsQuiet ==
    voiceState = "idle" /\ ~overlapped =>
        mics = {} /\ transcripts = {} /\ ending = {} /\ flags = {}
=============================================================================
