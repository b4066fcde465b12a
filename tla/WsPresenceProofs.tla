--------------------------- MODULE WsPresenceProofs ---------------------------
(***************************************************************************)
(* Proofs about WsPresence, for any sockets, nodes, limit and faults.      *)
(***************************************************************************)
EXTENDS WsPresence, TLAPS

\* Where the task of a connection is while the connection is in its node's hub ...
InHub == {"hub", "added", "registered", "online", "started", "live", "closing", "leaked"}
\* ... from the SADD to the SREM ...
Listed == {"added", "registered", "online", "started", "live", "closing", "removed"}
\* ... and after it, on the way to the question whether this was the last one.
Leaving == {"removed", "unlisted", "unbeaten", "empty", "unregistered", "alone", "asking"}
Phases == InHub \cup Leaving \cup {"new", "limit", "limit_clear", "admitted", "counted", "counted_clear", "offline", "ended"}

PresenceType ==
    /\ phase \in [Sockets -> Phases]
    /\ active \in [Sockets -> SUBSET Sockets]
    /\ hub \subseteq Sockets /\ registry \subseteq Sockets /\ beating \subseteq Sockets /\ half \subseteq beating
    /\ presence \in Statuses /\ manual \in BOOLEAN /\ failed \in BOOLEAN

\* The hub has the connections whose task is between add_connection and remove_connection; heartbeat tasks
\* run for those that are up, and for those that run_connection left behind.
HubInv ==
    /\ \A s \in Sockets : s \in hub <=> phase[s] \in InHub
    /\ \A s \in beating : phase[s] \in {"live", "leaked"}

\* Without a failure only connections between SADD and SREM are in the registry, and none is left behind.
ListedInv == ~failed => /\ \A s \in registry : phase[s] \in Listed
                        /\ \A s \in Sockets : phase[s] # "leaked"

\* A task that will yet find the user offline, or find another one that will.  One that counted others no
\* longer does: it leaves it to those it counted.
WillTell(s) == \/ phase[s] \in (InHub \ {"leaked"}) \cup Leaving \cup {"offline"}
               \/ phase[s] \in {"counted", "counted_clear"} /\ active[s] = {}

OfflineInv == ~failed /\ ~manual /\ presence # "offline" => \E s \in Sockets : WillTell(s)

PresenceInv == PresenceType /\ HubInv /\ ListedInv /\ OfflineInv

-----------------------------------------------------------------------------
\* What the tasks, the nodes and the user do to where the tasks are, one step at a time.
LEMMA TypeSteps ==
    ASSUME PresenceType, [PresenceNext]_PresenceVars
    PROVE  PresenceType'
<1>. USE PresenceAssumption DEF PresenceType, Phases, InHub, Leaving, Statuses, redis, row, count, beats
<1>1. ASSUME NEW s \in Sockets, ReadLimit(s) PROVE PresenceType'
  BY <1>1 DEF ReadLimit, ReadCount, Go
<1>2. ASSUME NEW s \in Sockets, Prune(s, "limit") PROVE PresenceType'
  BY <1>2 DEF Prune, Clear
<1>3. ASSUME NEW s \in Sockets, PruneAll(s, "limit") PROVE PresenceType'
  BY <1>3 DEF PruneAll, Clear, Go
<1>4. ASSUME NEW s \in Sockets, Admit(s) PROVE PresenceType'
  BY <1>4 DEF Admit, Counted, Go
<1>5. ASSUME NEW s \in Sockets, Refuse(s) PROVE PresenceType'
  BY <1>5 DEF Refuse, Counted, Go
<1>6. ASSUME NEW s \in Sockets, RefuseUnknown(s) PROVE PresenceType'
  BY <1>6 DEF RefuseUnknown, CountFails, Clear, Go
<1>7. ASSUME NEW s \in Sockets, AddConnection(s) PROVE PresenceType'
  BY <1>7 DEF AddConnection, Go
<1>8. ASSUME NEW s \in Sockets, RegisterAdd(s) PROVE PresenceType'
  BY <1>8 DEF RegisterAdd, Go
<1>9. ASSUME NEW s \in Sockets, RegisterBeat(s) PROVE PresenceType'
  BY <1>9 DEF RegisterBeat, Go
<1>10. ASSUME NEW s \in Sockets, RegisterFails(s) PROVE PresenceType'
  BY <1>10 DEF RegisterFails, Go
<1>11. ASSUME NEW s \in Sockets, CheckManualOnConnect(s) PROVE PresenceType'
  BY <1>11 DEF CheckManualOnConnect, Go
<1>12. ASSUME NEW s \in Sockets, PersistOnline(s) PROVE PresenceType'
  BY <1>12 DEF PersistOnline, Go
<1>13. ASSUME NEW s \in Sockets, Start(s) PROVE PresenceType'
  BY <1>13 DEF Start, Go
<1>14. ASSUME NEW s \in Sockets, HelloFails(s) PROVE PresenceType'
  BY <1>14 DEF HelloFails, Go
<1>15. ASSUME NEW s \in Sockets, RemoveConnection(s) PROVE PresenceType'
  BY <1>15 DEF RemoveConnection, Go
<1>16. ASSUME NEW s \in Sockets, UnregisterRemove(s) PROVE PresenceType'
  BY <1>16 DEF UnregisterRemove, Go
<1>17. ASSUME NEW s \in Sockets, UnregisterBeat(s) PROVE PresenceType'
  BY <1>17 DEF UnregisterBeat, Go
<1>18. ASSUME NEW s \in Sockets, UnregisterCount(s) PROVE PresenceType'
  BY <1>18 DEF UnregisterCount, Go
<1>19. ASSUME NEW s \in Sockets, UnregisterDelete(s) PROVE PresenceType'
  BY <1>19 DEF UnregisterDelete, Go
<1>20. ASSUME NEW s \in Sockets, UnregisterFails(s) PROVE PresenceType'
  BY <1>20 DEF UnregisterFails, Go
<1>21. ASSUME NEW s \in Sockets, CheckLocal(s) PROVE PresenceType'
  BY <1>21 DEF CheckLocal, Go
<1>22. ASSUME NEW s \in Sockets, CheckManual(s) PROVE PresenceType'
  BY <1>22 DEF CheckManual, Go
<1>23. ASSUME NEW s \in Sockets, ReadRemaining(s) PROVE PresenceType'
  BY <1>23 DEF ReadRemaining, ReadCount, Go
<1>24. ASSUME NEW s \in Sockets, Prune(s, "counted") PROVE PresenceType'
  BY <1>24 DEF Prune, Clear
<1>25. ASSUME NEW s \in Sockets, PruneAll(s, "counted") PROVE PresenceType'
  BY <1>25 DEF PruneAll, Clear, Go
<1>26. ASSUME NEW s \in Sockets, DecideOffline(s) PROVE PresenceType'
  BY <1>26 DEF DecideOffline, Counted, Go
<1>27. ASSUME NEW s \in Sockets, RemainingUnknown(s) PROVE PresenceType'
  BY <1>27 DEF RemainingUnknown, CountFails, Clear, Go
<1>28. ASSUME NEW s \in Sockets, PersistOffline(s) PROVE PresenceType'
  BY <1>28 DEF PersistOffline, Go
<1>29. ASSUME NEW s \in Sockets, LoopEnds(s) PROVE PresenceType'
  BY <1>29 DEF LoopEnds, Go
<1>30. ASSUME NEW s \in Sockets, HeartbeatAdd(s) PROVE PresenceType'
  BY <1>30 DEF HeartbeatAdd
<1>31. ASSUME NEW s \in Sockets, Heartbeat(s) PROVE PresenceType'
  BY <1>31 DEF Heartbeat
<1>32. ASSUME NEW s \in Sockets, Expire(s) PROVE PresenceType'
  BY <1>32 DEF Expire
<1>33. ASSUME NEW n \in Nodes, Crash(n) PROVE PresenceType'
  BY <1>33 DEF Crash
<1>34. CASE SetStatus
  BY <1>34 DEF SetStatus
<1>35. CASE UNCHANGED PresenceVars
  BY <1>35 DEF PresenceVars
<1>. QED
  BY <1>1, <1>2, <1>3, <1>4, <1>5, <1>6, <1>7, <1>8, <1>9, <1>10, <1>11, <1>12, <1>13, <1>14, <1>15, <1>16, <1>17, <1>18, <1>19, <1>20, <1>21, <1>22, <1>23, <1>24, <1>25, <1>26, <1>27, <1>28, <1>29, <1>30, <1>31, <1>32, <1>33, <1>34, <1>35 DEF PresenceNext, ConnectStep, DisconnectStep

\* A heartbeat task runs only for a connection in its node's hub.
LEMMA HubSteps ==
    ASSUME PresenceType, HubInv, [PresenceNext]_PresenceVars
    PROVE  HubInv'
<1>. USE DEF PresenceType, HubInv, Phases, InHub, Leaving, redis, row, count, beats
<1>1. ASSUME NEW s \in Sockets, ReadLimit(s) PROVE HubInv'
  BY <1>1 DEF ReadLimit, ReadCount, Go
<1>2. ASSUME NEW s \in Sockets, Prune(s, "limit") PROVE HubInv'
  BY <1>2 DEF Prune, Clear
<1>3. ASSUME NEW s \in Sockets, PruneAll(s, "limit") PROVE HubInv'
  BY <1>3 DEF PruneAll, Clear, Go
<1>4. ASSUME NEW s \in Sockets, Admit(s) PROVE HubInv'
  BY <1>4 DEF Admit, Counted, Go
<1>5. ASSUME NEW s \in Sockets, Refuse(s) PROVE HubInv'
  BY <1>5 DEF Refuse, Counted, Go
<1>6. ASSUME NEW s \in Sockets, RefuseUnknown(s) PROVE HubInv'
  BY <1>6 DEF RefuseUnknown, CountFails, Clear, Go
<1>7. ASSUME NEW s \in Sockets, AddConnection(s) PROVE HubInv'
  BY <1>7 DEF AddConnection, Go
<1>8. ASSUME NEW s \in Sockets, RegisterAdd(s) PROVE HubInv'
  BY <1>8 DEF RegisterAdd, Go
<1>9. ASSUME NEW s \in Sockets, RegisterBeat(s) PROVE HubInv'
  BY <1>9 DEF RegisterBeat, Go
<1>10. ASSUME NEW s \in Sockets, RegisterFails(s) PROVE HubInv'
  BY <1>10 DEF RegisterFails, Go
<1>11. ASSUME NEW s \in Sockets, CheckManualOnConnect(s) PROVE HubInv'
  BY <1>11 DEF CheckManualOnConnect, Go
<1>12. ASSUME NEW s \in Sockets, PersistOnline(s) PROVE HubInv'
  BY <1>12 DEF PersistOnline, Go
<1>13. ASSUME NEW s \in Sockets, Start(s) PROVE HubInv'
  BY <1>13 DEF Start, Go
<1>14. ASSUME NEW s \in Sockets, HelloFails(s) PROVE HubInv'
  BY <1>14 DEF HelloFails, Go
<1>15. ASSUME NEW s \in Sockets, RemoveConnection(s) PROVE HubInv'
  BY <1>15 DEF RemoveConnection, Go
<1>16. ASSUME NEW s \in Sockets, UnregisterRemove(s) PROVE HubInv'
  BY <1>16 DEF UnregisterRemove, Go
<1>17. ASSUME NEW s \in Sockets, UnregisterBeat(s) PROVE HubInv'
  BY <1>17 DEF UnregisterBeat, Go
<1>18. ASSUME NEW s \in Sockets, UnregisterCount(s) PROVE HubInv'
  BY <1>18 DEF UnregisterCount, Go
<1>19. ASSUME NEW s \in Sockets, UnregisterDelete(s) PROVE HubInv'
  BY <1>19 DEF UnregisterDelete, Go
<1>20. ASSUME NEW s \in Sockets, UnregisterFails(s) PROVE HubInv'
  BY <1>20 DEF UnregisterFails, Go
<1>21. ASSUME NEW s \in Sockets, CheckLocal(s) PROVE HubInv'
  BY <1>21 DEF CheckLocal, Go
<1>22. ASSUME NEW s \in Sockets, CheckManual(s) PROVE HubInv'
  BY <1>22 DEF CheckManual, Go
<1>23. ASSUME NEW s \in Sockets, ReadRemaining(s) PROVE HubInv'
  BY <1>23 DEF ReadRemaining, ReadCount, Go
<1>24. ASSUME NEW s \in Sockets, Prune(s, "counted") PROVE HubInv'
  BY <1>24 DEF Prune, Clear
<1>25. ASSUME NEW s \in Sockets, PruneAll(s, "counted") PROVE HubInv'
  BY <1>25 DEF PruneAll, Clear, Go
<1>26. ASSUME NEW s \in Sockets, DecideOffline(s) PROVE HubInv'
  BY <1>26 DEF DecideOffline, Counted, Go
<1>27. ASSUME NEW s \in Sockets, RemainingUnknown(s) PROVE HubInv'
  BY <1>27 DEF RemainingUnknown, CountFails, Clear, Go
<1>28. ASSUME NEW s \in Sockets, PersistOffline(s) PROVE HubInv'
  BY <1>28 DEF PersistOffline, Go
<1>29. ASSUME NEW s \in Sockets, LoopEnds(s) PROVE HubInv'
  BY <1>29 DEF LoopEnds, Go
<1>30. ASSUME NEW s \in Sockets, HeartbeatAdd(s) PROVE HubInv'
  BY <1>30 DEF HeartbeatAdd
<1>31. ASSUME NEW s \in Sockets, Heartbeat(s) PROVE HubInv'
  BY <1>31 DEF Heartbeat
<1>32. ASSUME NEW s \in Sockets, Expire(s) PROVE HubInv'
  BY <1>32 DEF Expire
<1>33. ASSUME NEW n \in Nodes, Crash(n) PROVE HubInv'
  BY <1>33 DEF Crash
<1>34. CASE SetStatus
  BY <1>34 DEF SetStatus
<1>35. CASE UNCHANGED PresenceVars
  BY <1>35 DEF PresenceVars
<1>. QED
  BY <1>1, <1>2, <1>3, <1>4, <1>5, <1>6, <1>7, <1>8, <1>9, <1>10, <1>11, <1>12, <1>13, <1>14, <1>15, <1>16, <1>17, <1>18, <1>19, <1>20, <1>21, <1>22, <1>23, <1>24, <1>25, <1>26, <1>27, <1>28, <1>29, <1>30, <1>31, <1>32, <1>33, <1>34, <1>35 DEF PresenceNext, ConnectStep, DisconnectStep

\* A heartbeat brings nobody back: it runs only while its connection is listed.
LEMMA ListedSteps ==
    ASSUME PresenceType, HubInv, ListedInv, [PresenceNext]_PresenceVars
    PROVE  ListedInv'
<1>. USE DEF PresenceType, HubInv, ListedInv, Phases, InHub, Leaving, Listed, redis, row, count, beats
<1>1. ASSUME NEW s \in Sockets, ReadLimit(s) PROVE ListedInv'
  BY <1>1 DEF ReadLimit, ReadCount, Go
<1>2. ASSUME NEW s \in Sockets, Prune(s, "limit") PROVE ListedInv'
  BY <1>2 DEF Prune, Clear
<1>3. ASSUME NEW s \in Sockets, PruneAll(s, "limit") PROVE ListedInv'
  BY <1>3 DEF PruneAll, Clear, Go
<1>4. ASSUME NEW s \in Sockets, Admit(s) PROVE ListedInv'
  BY <1>4 DEF Admit, Counted, Go
<1>5. ASSUME NEW s \in Sockets, Refuse(s) PROVE ListedInv'
  BY <1>5 DEF Refuse, Counted, Go
<1>6. ASSUME NEW s \in Sockets, RefuseUnknown(s) PROVE ListedInv'
  BY <1>6 DEF RefuseUnknown, CountFails, Clear, Go
<1>7. ASSUME NEW s \in Sockets, AddConnection(s) PROVE ListedInv'
  BY <1>7 DEF AddConnection, Go
<1>8. ASSUME NEW s \in Sockets, RegisterAdd(s) PROVE ListedInv'
  BY <1>8 DEF RegisterAdd, Go
<1>9. ASSUME NEW s \in Sockets, RegisterBeat(s) PROVE ListedInv'
  BY <1>9 DEF RegisterBeat, Go
<1>10. ASSUME NEW s \in Sockets, RegisterFails(s) PROVE ListedInv'
  BY <1>10 DEF RegisterFails, Go
<1>11. ASSUME NEW s \in Sockets, CheckManualOnConnect(s) PROVE ListedInv'
  BY <1>11 DEF CheckManualOnConnect, Go
<1>12. ASSUME NEW s \in Sockets, PersistOnline(s) PROVE ListedInv'
  BY <1>12 DEF PersistOnline, Go
<1>13. ASSUME NEW s \in Sockets, Start(s) PROVE ListedInv'
  BY <1>13 DEF Start, Go
<1>14. ASSUME NEW s \in Sockets, HelloFails(s) PROVE ListedInv'
  BY <1>14 DEF HelloFails, Go
<1>15. ASSUME NEW s \in Sockets, RemoveConnection(s) PROVE ListedInv'
  BY <1>15 DEF RemoveConnection, Go
<1>16. ASSUME NEW s \in Sockets, UnregisterRemove(s) PROVE ListedInv'
  BY <1>16 DEF UnregisterRemove, Go
<1>17. ASSUME NEW s \in Sockets, UnregisterBeat(s) PROVE ListedInv'
  BY <1>17 DEF UnregisterBeat, Go
<1>18. ASSUME NEW s \in Sockets, UnregisterCount(s) PROVE ListedInv'
  BY <1>18 DEF UnregisterCount, Go
<1>19. ASSUME NEW s \in Sockets, UnregisterDelete(s) PROVE ListedInv'
  BY <1>19 DEF UnregisterDelete, Go
<1>20. ASSUME NEW s \in Sockets, UnregisterFails(s) PROVE ListedInv'
  BY <1>20 DEF UnregisterFails, Go
<1>21. ASSUME NEW s \in Sockets, CheckLocal(s) PROVE ListedInv'
  BY <1>21 DEF CheckLocal, Go
<1>22. ASSUME NEW s \in Sockets, CheckManual(s) PROVE ListedInv'
  BY <1>22 DEF CheckManual, Go
<1>23. ASSUME NEW s \in Sockets, ReadRemaining(s) PROVE ListedInv'
  BY <1>23 DEF ReadRemaining, ReadCount, Go
<1>24. ASSUME NEW s \in Sockets, Prune(s, "counted") PROVE ListedInv'
  BY <1>24 DEF Prune, Clear
<1>25. ASSUME NEW s \in Sockets, PruneAll(s, "counted") PROVE ListedInv'
  BY <1>25 DEF PruneAll, Clear, Go
<1>26. ASSUME NEW s \in Sockets, DecideOffline(s) PROVE ListedInv'
  BY <1>26 DEF DecideOffline, Counted, Go
<1>27. ASSUME NEW s \in Sockets, RemainingUnknown(s) PROVE ListedInv'
  BY <1>27 DEF RemainingUnknown, CountFails, Clear, Go
<1>28. ASSUME NEW s \in Sockets, PersistOffline(s) PROVE ListedInv'
  BY <1>28 DEF PersistOffline, Go
<1>29. ASSUME NEW s \in Sockets, LoopEnds(s) PROVE ListedInv'
  BY <1>29 DEF LoopEnds, Go
<1>30. ASSUME NEW s \in Sockets, HeartbeatAdd(s) PROVE ListedInv'
  BY <1>30 DEF HeartbeatAdd
<1>31. ASSUME NEW s \in Sockets, Heartbeat(s) PROVE ListedInv'
  BY <1>31 DEF Heartbeat
<1>32. ASSUME NEW s \in Sockets, Expire(s) PROVE ListedInv'
  BY <1>32 DEF Expire
<1>33. ASSUME NEW n \in Nodes, Crash(n) PROVE ListedInv'
  BY <1>33 DEF Crash
<1>34. CASE SetStatus
  BY <1>34 DEF SetStatus
<1>35. CASE UNCHANGED PresenceVars
  BY <1>35 DEF PresenceVars
<1>. QED
  BY <1>1, <1>2, <1>3, <1>4, <1>5, <1>6, <1>7, <1>8, <1>9, <1>10, <1>11, <1>12, <1>13, <1>14, <1>15, <1>16, <1>17, <1>18, <1>19, <1>20, <1>21, <1>22, <1>23, <1>24, <1>25, <1>26, <1>27, <1>28, <1>29, <1>30, <1>31, <1>32, <1>33, <1>34, <1>35 DEF PresenceNext, ConnectStep, DisconnectStep

\* A task that no longer will tell has found one in its hub or counted one in the registry, which will,
\* or a chosen status, or has written that the user is offline.
LEMMA OfflineSteps ==
    ASSUME PresenceType, HubInv, ListedInv, OfflineInv, [PresenceNext]_PresenceVars
    PROVE  OfflineInv'
<1>. USE DEF PresenceType, HubInv, ListedInv, OfflineInv, WillTell, Phases, InHub, Leaving, Listed, redis, row, count, beats
<1>1. ASSUME NEW s \in Sockets, ReadLimit(s) PROVE OfflineInv'
  BY <1>1 DEF ReadLimit, ReadCount, Go
<1>2. ASSUME NEW s \in Sockets, Prune(s, "limit") PROVE OfflineInv'
  BY <1>2 DEF Prune, Clear
<1>3. ASSUME NEW s \in Sockets, PruneAll(s, "limit") PROVE OfflineInv'
  BY <1>3 DEF PruneAll, Clear, Go
<1>4. ASSUME NEW s \in Sockets, Admit(s) PROVE OfflineInv'
  BY <1>4 DEF Admit, Counted, Go
<1>5. ASSUME NEW s \in Sockets, Refuse(s) PROVE OfflineInv'
  BY <1>5 DEF Refuse, Counted, Go
<1>6. ASSUME NEW s \in Sockets, RefuseUnknown(s) PROVE OfflineInv'
  BY <1>6 DEF RefuseUnknown, CountFails, Clear, Go
<1>7. ASSUME NEW s \in Sockets, AddConnection(s) PROVE OfflineInv'
  BY <1>7 DEF AddConnection, Go
<1>8. ASSUME NEW s \in Sockets, RegisterAdd(s) PROVE OfflineInv'
  BY <1>8 DEF RegisterAdd, Go
<1>9. ASSUME NEW s \in Sockets, RegisterBeat(s) PROVE OfflineInv'
  BY <1>9 DEF RegisterBeat, Go
<1>10. ASSUME NEW s \in Sockets, RegisterFails(s) PROVE OfflineInv'
  BY <1>10 DEF RegisterFails, Go
<1>11. ASSUME NEW s \in Sockets, CheckManualOnConnect(s) PROVE OfflineInv'
  BY <1>11 DEF CheckManualOnConnect, Go
<1>12. ASSUME NEW s \in Sockets, PersistOnline(s) PROVE OfflineInv'
  BY <1>12 DEF PersistOnline, Go
<1>13. ASSUME NEW s \in Sockets, Start(s) PROVE OfflineInv'
  BY <1>13 DEF Start, Go
<1>14. ASSUME NEW s \in Sockets, HelloFails(s) PROVE OfflineInv'
  BY <1>14 DEF HelloFails, Go
<1>15. ASSUME NEW s \in Sockets, RemoveConnection(s) PROVE OfflineInv'
  BY <1>15 DEF RemoveConnection, Go
<1>16. ASSUME NEW s \in Sockets, UnregisterRemove(s) PROVE OfflineInv'
  BY <1>16 DEF UnregisterRemove, Go
<1>17. ASSUME NEW s \in Sockets, UnregisterBeat(s) PROVE OfflineInv'
  BY <1>17 DEF UnregisterBeat, Go
<1>18. ASSUME NEW s \in Sockets, UnregisterCount(s) PROVE OfflineInv'
  BY <1>18 DEF UnregisterCount, Go
<1>19. ASSUME NEW s \in Sockets, UnregisterDelete(s) PROVE OfflineInv'
  BY <1>19 DEF UnregisterDelete, Go
<1>20. ASSUME NEW s \in Sockets, UnregisterFails(s) PROVE OfflineInv'
  BY <1>20 DEF UnregisterFails, Go
<1>21. ASSUME NEW s \in Sockets, CheckLocal(s) PROVE OfflineInv'
  BY <1>21 DEF CheckLocal, Go
<1>22. ASSUME NEW s \in Sockets, CheckManual(s) PROVE OfflineInv'
  BY <1>22 DEF CheckManual, Go
<1>23. ASSUME NEW s \in Sockets, ReadRemaining(s) PROVE OfflineInv'
  BY <1>23 DEF ReadRemaining, ReadCount, Go
<1>24. ASSUME NEW s \in Sockets, Prune(s, "counted") PROVE OfflineInv'
  BY <1>24 DEF Prune, Clear
<1>25. ASSUME NEW s \in Sockets, PruneAll(s, "counted") PROVE OfflineInv'
  BY <1>25 DEF PruneAll, Clear, Go
<1>26. ASSUME NEW s \in Sockets, DecideOffline(s) PROVE OfflineInv'
  BY <1>26 DEF DecideOffline, Counted, Go
<1>27. ASSUME NEW s \in Sockets, RemainingUnknown(s) PROVE OfflineInv'
  BY <1>27 DEF RemainingUnknown, CountFails, Clear, Go
<1>28. ASSUME NEW s \in Sockets, PersistOffline(s) PROVE OfflineInv'
  BY <1>28 DEF PersistOffline, Go
<1>29. ASSUME NEW s \in Sockets, LoopEnds(s) PROVE OfflineInv'
  BY <1>29 DEF LoopEnds, Go
<1>30. ASSUME NEW s \in Sockets, HeartbeatAdd(s) PROVE OfflineInv'
  BY <1>30 DEF HeartbeatAdd
<1>31. ASSUME NEW s \in Sockets, Heartbeat(s) PROVE OfflineInv'
  BY <1>31 DEF Heartbeat
<1>32. ASSUME NEW s \in Sockets, Expire(s) PROVE OfflineInv'
  BY <1>32 DEF Expire
<1>33. ASSUME NEW n \in Nodes, Crash(n) PROVE OfflineInv'
  BY <1>33 DEF Crash
<1>34. CASE SetStatus
  BY <1>34 DEF SetStatus
<1>35. CASE UNCHANGED PresenceVars
  BY <1>35 DEF PresenceVars
<1>. QED
  BY <1>1, <1>2, <1>3, <1>4, <1>5, <1>6, <1>7, <1>8, <1>9, <1>10, <1>11, <1>12, <1>13, <1>14, <1>15, <1>16, <1>17, <1>18, <1>19, <1>20, <1>21, <1>22, <1>23, <1>24, <1>25, <1>26, <1>27, <1>28, <1>29, <1>30, <1>31, <1>32, <1>33, <1>34, <1>35 DEF PresenceNext, ConnectStep, DisconnectStep


-----------------------------------------------------------------------------
LEMMA PresenceInvAlways == PresenceSpec => []PresenceInv
<1>1. PresenceInit => PresenceInv
  BY DEF PresenceInit, PresenceInv, PresenceType, HubInv, ListedInv, OfflineInv, Phases, InHub, Leaving, Statuses, redis, row, count, beats
<1>2. PresenceInv /\ [PresenceNext]_PresenceVars => PresenceInv'
  BY TypeSteps, HubSteps, ListedSteps, OfflineSteps DEF PresenceInv
<1>. QED
  BY <1>1, <1>2, PTL DEF PresenceSpec

\* Unless something fails no ended connection counts against the limit, and whatever fails only connections
\* in their node's hub are kept alive, for any number of sockets on any nodes (run_connection's cleanup,
\* heartbeat_task).
THEOREM EndedNotCountedAlways == PresenceSpec => []EndedNotCounted
<1>1. PresenceInv => EndedNotCounted
  BY DEF PresenceInv, PresenceType, HubInv, ListedInv, EndedNotCounted, At, InHub, Listed
<1>. QED
  BY <1>1, PresenceInvAlways, PTL

\* When all connections have ended the user is offline unless the status was chosen or something failed,
\* whatever the order in which any number of tasks on any nodes interleave (handle_disconnect).
THEOREM OfflineWhenLastDropsAlways == PresenceSpec => []OfflineWhenLastDrops
<1>1. PresenceInv => OfflineWhenLastDrops
  BY DEF PresenceInv, PresenceType, OfflineInv, WillTell, OfflineWhenLastDrops, At, InHub, Leaving
<1>. QED
  BY <1>1, PresenceInvAlways, PTL

=============================================================================
