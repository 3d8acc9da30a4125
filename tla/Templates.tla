------------------------------ MODULE Templates ------------------------------
(***************************************************************************)
(* Template rendering (src/papago.c): papago_render_file,                  *)
(* papago_render_template and papago_res_render, with the growing memory   *)
(* stream they render into (memstream_t behind a FILE pointer).            *)
(*                                                                         *)
(* The variables live in the server's one template_ctx.  A call sets its   *)
(* own and renders under template_mutex; what it does with the stream      *)
(* after that is its own.  The engine (external) puts the text into the    *)
(* stream's stdio buffer, which reaches ms_write in pieces of any size, at *)
(* the latest in fseek.  Text is a sequence of tokens.                     *)
(***************************************************************************)
EXTENDS Integers, SequencesExt, FiniteSetsExt

CONSTANTS
    RenderThreads,
    Vars, Values,
    TemplateTexts,       \* sequences of variables and literal tokens
    ArgLists,            \* variables a call sets: functions from some of Vars
    OutputSizes,
    STREAM_CAP,          \* the first capacity of a stream: 128
    MaxRenders           \* bound: calls made

Nobody == "nobody"
Unset == "unset"         \* a variable nobody has set renders as nothing
NUL == "NUL"
Junk == "junk"           \* memory never written

ASSUME TemplatesAssumption ==
    /\ Nobody \notin RenderThreads
    /\ Unset \notin Values /\ {NUL, Junk} \cap Values = {}
    /\ \A text \in TemplateTexts :
          text \in Seq(Range(text)) /\ {NUL, Junk} \cap Range(text) = {}
    /\ \A a \in ArgLists : DOMAIN a \subseteq Vars /\ Range(a) \subseteq Values
    /\ OutputSizes \subseteq Nat \ {0}
    /\ STREAM_CAP \in Nat \ {0} /\ MaxRenders \in Nat

VARIABLES
    template_ctx, template_mutex,
    rpc, tmpl, args,             \* the call a thread is in
    stdio,                       \* text the engine wrote, not yet in the stream
    data, size, capacity, pos,   \* memstream_t
    output, ret,
    renders,                     \* calls made
    streams,                     \* streams open
    truncated, failed            \* history: realloc failed; the engine failed

ctxVars == <<template_ctx, template_mutex>>
callVars == <<tmpl, args>>
memVars == <<data, size, capacity, pos>>
templateVars == <<ctxVars, rpc, callVars, stdio, memVars, output, ret, renders,
                  streams, truncated, failed>>

TemplatesInit ==
    /\ template_ctx = [v \in Vars |-> Unset] /\ template_mutex = Nobody
    /\ rpc = [t \in RenderThreads |-> "idle"]
    /\ tmpl = [t \in RenderThreads |-> <<>>]
    /\ args = [t \in RenderThreads |-> <<>>]
    /\ stdio = [t \in RenderThreads |-> <<>>]
    /\ data = [t \in RenderThreads |-> <<>>]
    /\ size = [t \in RenderThreads |-> 0]
    /\ capacity = [t \in RenderThreads |-> 0]
    /\ pos = [t \in RenderThreads |-> 0]
    /\ output = [t \in RenderThreads |-> <<>>]
    /\ ret = [t \in RenderThreads |-> 0]
    /\ renders = 0 /\ streams = {}
    /\ truncated = [t \in RenderThreads |-> FALSE] /\ failed = 0

At(t, here, there) == rpc[t] = here /\ rpc' = [rpc EXCEPT ![t] = there]

-----------------------------------------------------------------------------
(* Under the mutex                                                         *)

\* A call with a cleared buffer of n tokens, when its arguments are valid.
RenderCall(t, text, a, n) ==
    /\ At(t, "idle", "lock") /\ renders < MaxRenders
    /\ renders' = renders + 1
    /\ tmpl' = [tmpl EXCEPT ![t] = text]
    /\ args' = [args EXCEPT ![t] = a]
    /\ output' = [output EXCEPT ![t] = [i \in 1 .. n |-> NUL]]
    /\ truncated' = [truncated EXCEPT ![t] = FALSE]
    /\ UNCHANGED <<ctxVars, stdio, memVars, ret, streams, failed>>

\* mp_set_var for each of the call's variables; the others keep their values.
SetVars(t) ==
    /\ At(t, "lock", "open") /\ template_mutex = Nobody
    /\ template_mutex' = t
    /\ template_ctx' = [v \in Vars |-> IF v \in DOMAIN args[t] THEN args[t][v]
                                       ELSE template_ctx[v]]
    /\ UNCHANGED <<callVars, stdio, memVars, output, ret, renders, streams,
                   truncated, failed>>

\* _fmemopen: a stream of STREAM_CAP, empty and ended.
OpenStream(t) ==
    /\ At(t, "open", "render")
    /\ data' = [data EXCEPT ![t] = [i \in 1 .. STREAM_CAP |->
                                       IF i = 1 THEN NUL ELSE Junk]]
    /\ size' = [size EXCEPT ![t] = 0] /\ pos' = [pos EXCEPT ![t] = 0]
    /\ capacity' = [capacity EXCEPT ![t] = STREAM_CAP]
    /\ streams' = streams \cup {<<t, renders>>}
    /\ UNCHANGED <<ctxVars, callVars, stdio, output, ret, renders, truncated,
                   failed>>

Fails(t) == ret' = [ret EXCEPT ![t] = 1] /\ template_mutex' = Nobody

OpenStreamFails(t) ==
    /\ At(t, "open", "idle") /\ Fails(t)
    /\ UNCHANGED <<template_ctx, callVars, stdio, memVars, output, renders,
                   streams, truncated, failed>>

\* What a template stands for when the variables are ctx.
Expand(text, ctx) ==
    FlattenSeq([i \in DOMAIN text |->
                   IF text[i] \notin Vars THEN <<text[i]>>
                   ELSE IF ctx[text[i]] = Unset THEN <<>>
                   ELSE <<ctx[text[i]]>>])

\* Mutant of Render: the mutex is released before the engine runs.
RenderUnlocked(t) ==
    /\ \/ At(t, "render", "render unlocked") /\ template_mutex = t
          /\ template_mutex' = Nobody /\ UNCHANGED stdio
       \/ At(t, "render unlocked", "flush") /\ UNCHANGED template_mutex
          /\ stdio' = [stdio EXCEPT ![t] = Expand(tmpl[t], template_ctx)]
    /\ UNCHANGED <<template_ctx, callVars, memVars, output, ret, renders,
                   streams, truncated, failed>>

\* mp_render_segment or mp_render_file, then the mutex is released.
Render(t) ==
    /\ At(t, "render", "flush")
    /\ stdio' = [stdio EXCEPT ![t] = Expand(tmpl[t], template_ctx)]
    /\ template_mutex' = Nobody
    /\ UNCHANGED <<template_ctx, callVars, memVars, output, ret, renders,
                   streams, truncated, failed>>

\* The engine fails: the call returns and its stream stays open.
RenderFails(t) ==
    /\ At(t, "render", "idle") /\ Fails(t)
    /\ failed' = failed + 1
    /\ UNCHANGED <<template_ctx, callVars, stdio, memVars, output, renders,
                   streams, truncated>>

-----------------------------------------------------------------------------
(* The stream, on the calling thread                                       *)

\* Mutant of NewCapacity: no room for the end of the string.
NewCapacityExact(old, end) == IF end > old THEN end ELSE old

\* ms_write keeps one byte behind the text.
NewCapacity(old, end) == IF end + 1 > old THEN (end + 1) * 2 ELSE old

\* Position i of the stream's memory after n tokens of stdio are written at
\* pos; the byte behind the text ends it.
Written(t, n, end, i) ==
    IF i = end + 1 THEN NUL
    ELSE IF i > pos[t] /\ i <= end THEN stdio[t][i - pos[t]]
    ELSE IF i <= capacity[t] THEN data[t][i] ELSE Junk

\* Writes follow each other, so that the text ends where the last one does.
MsWrite(t, n) ==
    /\ rpc[t] = "flush" /\ n <= Len(stdio[t])
    /\ LET end == pos[t] + n
       IN  /\ capacity' = [capacity EXCEPT ![t] = NewCapacity(@, end)]
           /\ data' = [data EXCEPT ![t] = [i \in 1 .. capacity'[t] |->
                                              Written(t, n, end, i)]]
           /\ pos' = [pos EXCEPT ![t] = end]
           /\ size' = [size EXCEPT ![t] = Max({@, end})]
    /\ stdio' = [stdio EXCEPT ![t] = SubSeq(@, n + 1, Len(@))]
    /\ UNCHANGED <<ctxVars, rpc, callVars, output, ret, renders, streams,
                   truncated, failed>>

\* realloc fails: stdio drops the piece it wanted to write, and nobody looks.
MsWriteNoMemory(t, n) ==
    /\ rpc[t] = "flush" /\ n <= Len(stdio[t])
    /\ NewCapacity(capacity[t], pos[t] + n) > capacity[t]
    /\ stdio' = [stdio EXCEPT ![t] = SubSeq(@, n + 1, Len(@))]
    /\ truncated' = [truncated EXCEPT ![t] = TRUE]
    /\ UNCHANGED <<ctxVars, rpc, callVars, memVars, output, ret, renders, streams,
                   failed>>

\* fseek has emptied the stdio buffer.  The text, without its end, is copied
\* over the caller's buffer, whatever its size, and the stream closed;
\* papago_res_render goes on to send the buffer, a response Dispatch has.
CopyOut(t) ==
    /\ At(t, "flush", "idle") /\ stdio[t] = <<>>
    /\ output' = [output EXCEPT ![t] =
          [i \in 1 .. Max({Len(@), size[t]}) |->
              IF i <= size[t] THEN data[t][i] ELSE @[i]]]
    /\ ret' = [ret EXCEPT ![t] = 0]
    /\ streams' = {s \in streams : s[1] # t \/ \E u \in streams :
                                        u[1] = t /\ u[2] > s[2]}
    /\ data' = [data EXCEPT ![t] = <<>>] /\ size' = [size EXCEPT ![t] = 0]
    /\ capacity' = [capacity EXCEPT ![t] = 0] /\ pos' = [pos EXCEPT ![t] = 0]
    /\ UNCHANGED <<ctxVars, callVars, stdio, renders, truncated, failed>>

TemplatesDone ==
    /\ renders = MaxRenders /\ \A t \in RenderThreads : rpc[t] = "idle"
    /\ UNCHANGED templateVars

TemplatesNext ==
    \/ \E t \in RenderThreads :
          \/ \E text \in TemplateTexts, a \in ArgLists, n \in OutputSizes :
                RenderCall(t, text, a, n)
          \/ SetVars(t) \/ OpenStream(t) \/ OpenStreamFails(t)
          \/ Render(t) \/ RenderFails(t)
          \/ \E n \in 1 .. Len(stdio[t]) : MsWrite(t, n) \/ MsWriteNoMemory(t, n)
          \/ CopyOut(t)
    \/ TemplatesDone

TemplatesSpec == TemplatesInit /\ [][TemplatesNext]_templateVars

-----------------------------------------------------------------------------
(* Properties                                                              *)

\* A cleared buffer as a C string: up to the first NUL.
AsString(buffer) ==
    LET ends == {i \in DOMAIN buffer : buffer[i] = NUL}
    IN  IF ends = {} THEN buffer ELSE SubSeq(buffer, 1, Min(ends) - 1)

\* Although all calls set variables in one context, a call that succeeds gets
\* the text its own values give, however calls of other threads interleave with
\* it: exactly, if it set every variable of the template and its cleared buffer
\* has room for the text and its end.
RenderExact ==
    \A t \in RenderThreads :
        (/\ rpc[t] = "idle" /\ ret[t] = 0 /\ tmpl[t] # <<>> /\ ~truncated[t]
         /\ \A i \in DOMAIN tmpl[t] : tmpl[t][i] \in Vars => tmpl[t][i] \in DOMAIN args[t])
        => LET own == Expand(tmpl[t], args[t])
           IN  Len(output[t]) > Len(own) => AsString(output[t]) = own

\* However the text is cut into writes, a stream's text and the NUL behind it lie
\* inside its memory and hold nothing that was not written; and but for renderings
\* that failed, every stream is closed when its call returns.
StreamSound ==
    /\ \A t \in RenderThreads :
          rpc[t] \in {"render", "flush"} =>
              /\ pos[t] <= size[t] /\ size[t] < capacity[t]
              /\ Len(data[t]) = capacity[t]
              /\ data[t][size[t] + 1] = NUL
              /\ \A i \in 1 .. size[t] : data[t][i] \notin {NUL, Junk}
    /\ Cardinality(streams) = failed + Cardinality(
          {t \in RenderThreads : rpc[t] \in {"render", "flush"}})
=============================================================================
