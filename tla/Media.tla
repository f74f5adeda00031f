-------------------------------- MODULE Media --------------------------------
(***************************************************************************)
(* Media turned into text: services/media and services/stt, each with its  *)
(* own MediaCache over the same metadata files, the documents extracted    *)
(* locally, the bound on what may enter the agent's context, and the       *)
(* speech-to-speech chain that runs through all of it.                     *)
(*                                                                         *)
(* Of a text the model keeps its size: "empty", "short", or "long" when it *)
(* is over the context budget; "head" is a long text cut to the budget.    *)
(***************************************************************************)
EXTENDS Naturals

CONSTANTS Files,  \* media files
          Calls,  \* requests, each used once: the bound
          Nil

VARIABLES
    cached,      \* <file>.metadata.json: kind -> size, Nil without an entry
    processing,  \* MediaCache.processing of each service: the call that fetches
    call,        \* the requests
    full         \* <file>.transcript.txt and .extracted.txt: "no", "torn" or "full"

vars == <<cached, processing, call, full>>

CacheOwners == {"media", "stt"}
Kinds == {"transcribe", "describe"}
Sizes == {"empty", "short", "long"}
MediaAssumption == Nil \notin Calls \cup Sizes
Requests == {"transcribeAudio", "describeImage", "extractDocument", "stt", "sts"}

ServiceOf(r) == IF r \in {"stt", "sts"} THEN "stt" ELSE "media"
KindOf(r) == IF r = "describeImage" THEN "describe" ELSE "transcribe"

New == [req |-> Nil, file |-> Nil, at |-> "new", owner |-> Nil, size |-> "empty"]
Ongoing == {"fetching", "joined", "valid", "saving", "agent", "tts"}

TypeOK ==
    /\ cached \in [Files -> [Kinds -> Sizes \cup {Nil}]]
    /\ processing \in [CacheOwners -> [Files -> Calls \cup {Nil}]]
    /\ call \in [Calls -> [req: Requests \cup {Nil}, file: Files \cup {Nil},
                           at: Ongoing \cup {"new", "answered", "failed"},
                           owner: Calls \cup {Nil}, size: Sizes \cup {"head"}]]
    /\ full \in [Files -> {"no", "torn", "full"}]

Init ==
    /\ cached = [f \in Files |-> [k \in Kinds |-> Nil]]
    /\ processing = [s \in CacheOwners |-> [f \in Files |-> Nil]]
    /\ call = [c \in Calls |-> New]
    /\ full = [f \in Files |-> "no"]

-----------------------------------------------------------------------------
(* What a call does with the text it was waiting for: transcripts for the   *)
(* agent are bounded, a turn of speech goes on to the agent.                *)
Continue(c, size) ==
    LET r == c.req
        at == CASE r = "transcribeAudio" /\ size = "long" -> "saving"
                [] r = "sts" -> IF size = "empty" THEN "failed" ELSE "agent"
                [] OTHER -> "answered"
    IN  [c EXCEPT !.at = at, !.size = size, !.owner = Nil]

(* MediaCache.get: the metadata file, then a fetch of this service that is  *)
(* under way for the file, whatever it fetches, then a fetch of its own.    *)
(* An empty result counts as none.  Beforehand the model reference has to   *)
(* resolve.                                                                 *)
Get(c, r, f) ==
    LET s == ServiceOf(r)  k == KindOf(r)  mine == [New EXCEPT !.req = r, !.file = f]
    IN  /\ call[c].at = "new" /\ r # "extractDocument"
        /\ IF cached[f][k] \in {"short", "long"}
           THEN /\ call' = [call EXCEPT ![c] = Continue(mine, cached[f][k])]
                /\ UNCHANGED processing
           ELSE IF processing[s][f] # Nil
           THEN /\ call' = [call EXCEPT ![c] = [mine EXCEPT !.at = "joined", !.owner = processing[s][f]]]
                /\ UNCHANGED processing
           ELSE /\ call' = [call EXCEPT ![c] = [mine EXCEPT !.at = "fetching", !.owner = c]]
                /\ processing' = [processing EXCEPT ![s][f] = c]
        /\ UNCHANGED <<cached, full>>

Unresolved(c, r, f) ==
    /\ call[c].at = "new" /\ r # "extractDocument"
    /\ call' = [call EXCEPT ![c] = [New EXCEPT !.req = r, !.file = f, !.at = "failed"]]
    /\ UNCHANGED <<cached, processing, full>>

Waiting(c) == {d \in Calls : call[d].at \in {"fetching", "joined"} /\ call[d].owner = c}
Release(c) == [processing EXCEPT ![ServiceOf(call[c].req)][call[c].file] = Nil]

(* What a provider may answer: a speech recognizer's empty result is        *)
(* replaced by a text, a vision model's not.                                *)
Answers(k) == IF k = "transcribe" THEN Sizes \ {"empty"} ELSE Sizes

(* The provider has answered: the result is merged into the metadata file,  *)
(* which may fail silently, and goes to everybody who waits.                *)
Fetched(c, size) ==
    LET f == call[c].file  k == KindOf(call[c].req)
    IN  /\ call[c].at = "fetching"
        /\ size \in Answers(k)
        /\ cached' \in {cached, [cached EXCEPT ![f][k] = size]}
        /\ processing' = Release(c)
        /\ call' = [d \in Calls |-> IF d \in Waiting(c) THEN Continue(call[d], size) ELSE call[d]]
        /\ UNCHANGED full

(* Fault: only a success takes the entry out.                               *)
FetchFailsKeepingEntry(c) ==
    /\ call[c].at = "fetching"
    /\ call' = [d \in Calls |-> IF d \in Waiting(c) THEN [call[d] EXCEPT !.at = "failed", !.owner = Nil]
                                ELSE call[d]]
    /\ UNCHANGED <<cached, processing, full>>

(* The file cannot be read, the request fails, or the provider has no such  *)
(* service: everybody who waits fails, and the next call fetches again.     *)
FetchFails(c) ==
    /\ call[c].at = "fetching"
    /\ processing' = Release(c)
    /\ call' = [d \in Calls |-> IF d \in Waiting(c) THEN [call[d] EXCEPT !.at = "failed", !.owner = Nil]
                                ELSE call[d]]
    /\ UNCHANGED <<cached, full>>

(* extractDocument: the path is checked, then the file is read again; it    *)
(* may have changed in between.  A binary file yields a placeholder.        *)
ValidatePath(c, f) ==
    /\ call[c].at = "new"
    /\ \E at \in {"valid", "failed"} :
         call' = [call EXCEPT ![c] = [New EXCEPT !.req = "extractDocument", !.file = f, !.at = at]]
    /\ UNCHANGED <<cached, processing, full>>

ExtractRaw(c) ==
    /\ call[c].at = "valid"
    /\ \/ call' = [call EXCEPT ![c].at = "failed"]
       \/ \E size \in Sizes :
            call' = [call EXCEPT ![c].at = IF size = "long" THEN "saving" ELSE "answered",
                                 ![c].size = size]
    /\ UNCHANGED <<cached, processing, full>>

(* boundForContext over the budget: the full text goes to a file; if that   *)
(* fails the head is passed on without a pointer.                           *)
BoundForContext(c) ==
    /\ call[c].at = "saving"
    /\ call' = [call EXCEPT ![c].at = "answered", ![c].size = "head"]
    /\ \E w \in {"full", "torn"} : full' = [full EXCEPT ![call[c].file] = w]
    /\ UNCHANGED <<cached, processing>>

(* sts.reply after the transcription: the agent's answer, then its speech.  *)
AgentAnswers(c) ==
    /\ call[c].at = "agent"
    /\ \E at \in {"tts", "failed"} : call' = [call EXCEPT ![c].at = at]
    /\ UNCHANGED <<cached, processing, full>>

Synthesize(c) ==
    /\ call[c].at = "tts"
    /\ \E at \in {"answered", "failed"} : call' = [call EXCEPT ![c].at = at]
    /\ UNCHANGED <<cached, processing, full>>

(* The process ends; a metadata file that was being written is torn and     *)
(* reads as none.                                                           *)
Restart ==
    /\ processing' = [s \in CacheOwners |-> [f \in Files |-> Nil]]
    /\ call' = [c \in Calls |-> IF call[c].at \in Ongoing
                                THEN [call[c] EXCEPT !.at = "failed", !.owner = Nil] ELSE call[c]]
    /\ cached' \in {cached} \cup {[cached EXCEPT ![f] = [k \in Kinds |-> Nil]] :
                                  f \in {call[c].file : c \in {d \in Calls : call[d].at = "fetching"}}}
    /\ UNCHANGED full

Next ==
    \/ \E c \in Calls :
         \/ \E f \in Files : \/ \E r \in Requests : Get(c, r, f) \/ Unresolved(c, r, f)
                             \/ ValidatePath(c, f)
         \/ \E size \in Sizes : Fetched(c, size)
         \/ FetchFails(c) \/ ExtractRaw(c) \/ BoundForContext(c)
         \/ AgentAnswers(c) \/ Synthesize(c)
    \/ Restart

Spec == Init /\ [][Next]_vars

-----------------------------------------------------------------------------
(* Properties *)

(* An entry of `processing` is a fetch that is really under way, one per    *)
(* service and file, and whoever joined it will hear from it: after a       *)
(* failure, a restart or an empty answer no file is left that every later   *)
(* call would wait for.                                                     *)
EntryBacked ==
    /\ \A s \in CacheOwners, f \in Files : processing[s][f] # Nil =>
          LET c == call[processing[s][f]]
          IN  c.at = "fetching" /\ c.file = f /\ ServiceOf(c.req) = s
    /\ \A c \in Calls : call[c].at \in {"fetching", "joined"} =>
          processing[ServiceOf(call[c].req)][call[c].file] = call[c].owner

(* No document or transcript over the budget (maxExtractChars, agent.ts:103) *)
(* enters the agent's context: what the media service answers is short or   *)
(* the head of a long text, whether or not the full text could be saved,    *)
(* and whether it was fetched, cached or heard from another call, of a      *)
(* description even.  The description of an image is not bounded.           *)
ContextBounded ==
    \A c \in Calls :
        call[c].at = "answered" /\ call[c].req \in {"transcribeAudio", "extractDocument"}
            => call[c].size # "long"
=============================================================================
