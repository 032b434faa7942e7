---------------------------- MODULE NamingHistory ----------------------------
(***************************************************************************)
(* What the naming server promises of its answers, its cache and its lists *)
(* of paths when requests overlap.  None of the three structures is always *)
(* in step with the others: two creations of one path may overlap, a path  *)
(* may be registered by a second server, a DELETE may end between a        *)
(* lookup's search and its lru_put, and the node of lru_get is used after  *)
(* the lock is given back.  The variables of this module follow            *)
(* NamingServer and remember exactly these events; the properties say that *)
(* nothing else, in any order of any requests, breaks the agreement.       *)
(***************************************************************************)
EXTENDS NamingServer

VARIABLES
    contested,   \* paths placed over another mapping, or whose new mapping a late DELETE took
    stale,       \* paths the cache may have a wrong server for
    age          \* for each thread, how long ago it got the pointer it will answer with

history == <<contested, stale, age>>
hvars == <<vars, history>>

HInit == /\ Init
         /\ contested = {} /\ stale = {}
         /\ age = [c \in Conn |-> 0]

\* The thread has a pointer to answer with, or is about to fill the cache with it.
Answering(c) == pc[c] \in {"lookup_put", "lookup_answer"}

HoldsNode(c) == pc[c] = "lookup_answer" /\ local[c].node # Null

\* A fill of the cache with an earlier answer of the trie for p is under way.
FillUnderWay(p) == \E c \in Conn : pc[c] = "lookup_put" /\ req[c].path = p

\* The trie has forgotten p, the cache has not yet; the deleting thread has the mutex.
BeingDeleted(p) == \E c \in Conn : pc[c] = "delete_cache" /\ req[c].path = p

-----------------------------------------------------------------------------
(* The events.                                                             *)

\* A path is placed.  The earlier mapping, if any, stays in the cache and in a list.
Placing(p) == /\ contested' = IF trie[p] = Null THEN contested ELSE contested \cup {p}
              /\ stale' = IF trie[p] = Null THEN stale ELSE stale \cup {p}
              /\ UNCHANGED age

\* A DELETE clears the mapping, which may be another one than it found.
Clearing(p, i) ==
    /\ contested' = IF trie[p] \in {Null, i} THEN contested ELSE contested \cup {p}
    /\ UNCHANGED <<stale, age>>

\* A DELETE has cleared the cache too: the path is right again, unless a fill is under
\* way; a pointer that was read before is out of date, and may be to a freed node.
Forgetting(p) ==
    /\ stale' = IF FillUnderWay(p) THEN stale \cup {p} ELSE stale \ {p}
    /\ age' = [c \in Conn |-> IF Answering(c) /\ req[c].path = p THEN LRU_CACHE_SIZE
                                                                ELSE age[c]]
    /\ UNCHANGED contested

\* The thread of c has made one entry the most recent one: the nodes the others hold
\* move one place towards the tail at most.
Overtaking(c) ==
    /\ age' = [d \in Conn |-> IF d # c /\ HoldsNode(d) /\ age[d] < LRU_CACHE_SIZE
                              THEN age[d] + 1 ELSE age[d]]
    /\ UNCHANGED <<contested, stale>>

Answered(c) == age' = [age EXCEPT ![c] = 0] /\ UNCHANGED <<contested, stale>>

-----------------------------------------------------------------------------
\* The steps of NamingServer that are events, and the others.
Event(c) ==
    \/ RegisterPath(c) /\ Placing(Head(local[c].rest))
    \/ CreateUpdate(c) /\ Placing(req[c].path)
    \/ CopyUpdate(c) /\ ~local[c].exists /\ Placing(req[c].path2)
    \/ DeleteTrie(c) /\ Clearing(req[c].path, local[c].ss)
    \/ DeleteCache(c) /\ Forgetting(req[c].path)
    \/ LookupCache(c) /\ Found(cache, req[c].path) # Null /\ Overtaking(c)
    \/ LookupPut(c) /\ Overtaking(c)
    \/ LookupAnswer(c) /\ Answered(c)

Quietly(c) ==
    \/ Accept(c) \/ NoThread(c) \/ Reply(c) \/ UnknownOperation(c)
    \/ RegisterStart(c) \/ RegisterEnd(c) \/ RegisterFull(c)
    \/ ListPaths(c) \/ ListFails(c)
    \/ CreateCheck(c) \/ CreatePick(c) \/ CreateRpc(c)
    \/ DeleteFind(c) \/ DeleteRpc(c)
    \/ CopySource(c) \/ CopyDest(c) \/ CopyPick(c) \/ CopyRpc(c)
    \/ CopyUpdate(c) /\ local[c].exists
    \/ LookupCache(c) /\ Found(cache, req[c].path) = Null
    \/ LookupTrie(c) \/ UseAfterFree(c)

HRestart == /\ Restart
            /\ contested' = {} /\ stale' = {}
            /\ age' = [c \in Conn |-> 0]

HNext == \/ ~fault /\ \E c \in Conn : Event(c) \/ (Quietly(c) /\ UNCHANGED history)
         \/ HRestart

HSpec == HInit /\ [][HNext]_hvars

-----------------------------------------------------------------------------
HistoryOK == /\ contested \subseteq Path /\ stale \subseteq Path
             /\ age \in [Conn -> 0 .. LRU_CACHE_SIZE]

\* What the cache would answer for a path alone in its bucket is what the trie answers,
\* while all kinds of requests overlap, but for a DELETE between its two clearings, and
\* until the next DELETE for a path that was placed over another mapping or filled in
\* behind a DELETE (naming_server.c:85, :191, :253-257, :363-367).
CacheCoherent == \A p \in Path :
    /\ Alone(p) /\ p \notin stale /\ ~BeingDeleted(p)
    /\ ~Dangling(cache, p) /\ Found(cache, p) # Null
    => /\ trie[p] # Null
       /\ cache.info[Found(cache, p)] = registered_ss[trie[p]].server

\* The node of lru_get is still there, with its path, when it is used after the lock was
\* given back, unless LRU_CACHE_SIZE later uses of the cache or a DELETE of its path came
\* in between (naming_server.c:362, :373).
HeldNodeStays == \A c \in Conn : HoldsNode(c) /\ age[c] < LRU_CACHE_SIZE =>
    local[c].node \in Live(cache) /\ cache.path[local[c].node] = req[c].path

\* As long as the node stays, a client is only sent to a server where its path was placed,
\* whatever the hash and whatever is deleted and evicted (naming_server.c:370-375).
RedirectWasPlaced == [][\A c \in Conn :
    LookupAnswer(c) /\ (local[c].node # Null => age[c] < LRU_CACHE_SIZE) =>
        <<req[c].path, reply'[c].server>> \in placed]_hvars

\* A client is sent to the server the trie gives for its path while the reply is made,
\* unless the path is stale or was deleted since the thread looked it up
\* (instructions.md:77, naming_server.c:359-375).
RedirectIsCurrent == [][\A c \in Conn :
    LET p == req[c].path
    IN  /\ LookupAnswer(c)
        /\ age[c] < LRU_CACHE_SIZE /\ p \notin stale /\ ~BeingDeleted(p)
        /\ local[c].node # Null => Alone(p)
        => /\ trie[p] # Null
           /\ reply'[c].server = registered_ss[trie[p]].server]_hvars

\* The paths an entry lists are mapped to it, and listed once, while requests overlap:
\* but for those a registration has yet to map, or a DELETE to take from the list, and
\* for the contested ones (naming_server.c:77-87, :192-196, :253-259).
Awaited(i, p) == \E c \in Conn :
    pc[c] = "register_paths" /\ i = num_registered_ss /\ p \in ToSet(local[c].rest)

ListedOnce(paths, p) == \A j, k \in DOMAIN paths : paths[j] = p /\ paths[k] = p => j = k

ListsMatchTrie == \A i \in Slot :
    LET paths == registered_ss[i].accessible_paths
    IN  \A p \in ToSet(paths) :
            \/ p \in contested \/ BeingDeleted(p) \/ Awaited(i, p)
            \/ trie[p] = i /\ ListedOnce(paths, p)

=============================================================================
