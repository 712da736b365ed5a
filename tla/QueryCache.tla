----------------------------- MODULE QueryCache -----------------------------
(***************************************************************************)
(* The query cache of a browser tab (TanStack Query as getQueryClient sets    *)
(* it up, used through the query hooks): what is cached under each key, and   *)
(* the fetch of each key.                                                    *)
(*                                                                          *)
(* staleTime is 0, so what is cached is stale at once and a component that     *)
(* mounts fetches again; a key has one fetch at a time, and whoever wants      *)
(* another joins it, except that an invalidation cancels the fetch of a key     *)
(* that has data and starts a new one.  The one automatic retry of a failed      *)
(* fetch is part of it.                                                       *)
(***************************************************************************)
EXTENDS ServerActions

VARIABLES
    cache,      \* what is cached, by key
    asked,      \* keys whose fetch the server has not answered
    answers,    \* the answers on their way, by key
    failed      \* keys whose last fetch has failed

client == <<cache, asked, answers, failed>>

HasData(k) == k \in DOMAIN cache

Answered(k) == k \in DOMAIN answers

Fetching(k) == k \in asked \/ Answered(k)

Loading(k) == ~HasData(k) /\ Fetching(k)

\* data ?? [], by id
Data(k) == IF HasData(k) THEN cache[k] ELSE <<>>

\* Partial functions by key.
Only(k, v) == [j \in {k} |-> v]

Over(f, g) == [j \in DOMAIN f \cup DOMAIN g |-> IF j \in DOMAIN f THEN f[j] ELSE g[j]]

Forget(f, k) == [j \in DOMAIN f \ {k} |-> f[j]]

NothingCached == cache = <<>> /\ asked = {} /\ answers = <<>> /\ failed = {}

ClearAll == cache' = <<>> /\ asked' = {} /\ answers' = <<>> /\ failed' = {}

\* Starts the fetches of some keys anew; one without data forgets its error.
Start(keys) ==
    /\ asked' = asked \cup keys
    /\ answers' = [k \in DOMAIN answers \ keys |-> answers[k]]
    /\ failed' = {k \in failed : k \in keys => HasData(k)}

Resting(keys) == {k \in keys : ~Fetching(k)}

\* Takes what the page came with for fresh.
MountWithoutFetching(hydrated, keys) ==
    /\ cache' = Over(hydrated, cache)
    /\ failed' = failed \ DOMAIN hydrated
    /\ UNCHANGED <<asked, answers>>

\* Components that use keys mount, over the data the page came with.
Mount(hydrated, keys) ==
    /\ cache' = Over(hydrated, cache)
    /\ asked' = asked \cup Resting(keys)
    /\ failed' = failed \ (DOMAIN hydrated \cup {k \in Resting(keys) : ~HasData(k)})
    /\ UNCHANGED answers

\* Joins the fetches in flight.
InvalidateJoining(keys) == Start(Resting(keys)) /\ UNCHANGED cache

\* invalidateQueries; keys are those that are in use.
Invalidate(keys) ==
    Start(Resting(keys) \cup {k \in keys : HasData(k)}) /\ UNCHANGED cache

\* The server action answers.
Read(k, answer) ==
    /\ k \in asked /\ signedIn
    /\ answer \in Answers(k)
    /\ asked' = asked \ {k}
    /\ answers' = Over(Only(k, answer), answers)
    /\ UNCHANGED <<cache, failed>>

\* The answer is there.
Store(k) ==
    /\ Answered(k)
    /\ cache' = Over(Only(k, answers[k]), cache)
    /\ answers' = Forget(answers, k)
    /\ failed' = failed \ {k}
    /\ UNCHANGED asked

\* Retries for ever.
FailAndRetry(k) ==
    /\ k \in asked
    /\ failed' = failed \cup {k}
    /\ UNCHANGED <<cache, asked, answers>>

\* The fetch has failed, and its retry.
Fail(k) ==
    /\ k \in asked
    /\ asked' = asked \ {k}
    /\ failed' = failed \cup {k}
    /\ UNCHANGED <<cache, answers>>

\* gcTime: five minutes after its last use.
Collect(k) ==
    /\ HasData(k) /\ ~Fetching(k)
    /\ cache' = Forget(cache, k)
    /\ failed' = failed \ {k}
    /\ UNCHANGED <<asked, answers>>
=============================================================================
