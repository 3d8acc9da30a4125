----------------------------- MODULE MCLifecycle -----------------------------
(* Bounded instances of Lifecycle: who stops the server, and what fails.    *)
EXTENDS Lifecycle

CONSTANTS h1, h2, o1

\* Handlers, callbacks and application threads stop the server.
ThreadCallers == Handlers \cup Outside \cup {Lws}

NoFailures == {}
=============================================================================
