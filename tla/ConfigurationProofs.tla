------------------------ MODULE ConfigurationProofs ------------------------
(***************************************************************************)
(* Proofs about module Configuration, for every set of clients, settings   *)
(* and adapters and every length of a request.                             *)
(***************************************************************************)
EXTENDS Configuration, TLAPS, FiniteSetTheorems

\* The types of the variables, one by one.
Locations == {"idle", "open", "close", "start", "read", "create", "default",
              "reset", "select"}
Configs == [adapter : 1 .. NAdapters, reciever : BOOLEAN,
            port : 0 .. Ports - 1, uid : 0 .. Uids - 1]

\* A request that has read the latest content of the file writes all the names
\* that are owed; a start that found no file finds that none are owed.
Drafts ==
    /\ file = NoFile => owed = {}
    /\ \A t \in Clients : ~stale[t] =>
          /\ pc[t] \in {"open", "close"} => owed \subseteq draft[t].names
          /\ pc[t] \in {"create", "default"} => owed = {}

\* Unset values are nowhere, neither in a request's draft nor in memory once a
\* start has read or made a configuration.
Asked ==
    blindRead \/
      /\ Readable => ~Unset(file)
      /\ \A t \in Clients : pc[t] \in {"open", "close"} => ~Unset(draft[t])
      /\ Junk \notin internalConfig.names
      /\ up => internalConfig.settings # Garbage
      /\ \A t \in Clients : pc[t] \in {"default", "reset", "select"} =>
            internalConfig.settings # Garbage

\* While starts come one at a time and find a file that they can open once a
\* start of the process has handed its names over, adapterNames owns the vector
\* only between two starts.
Ownership ==
    spoilt \/
      /\ ~dangling
      /\ owned => handed
      /\ \A t, u \in Clients : Starting(t) /\ Starting(u) => t = u
      /\ \A t \in Clients : pc[t] \in {"create", "default", "reset"} => ~owned

\* The inductive invariant.
ConfigurationInv ==
    /\ TypeOK /\ EmptyOnlyMidWrite
    /\ CompletedPutsSurvive /\ Drafts
    /\ Asked /\ Ownership

-----------------------------------------------------------------------------
(* Facts about the operators of the model.                                 *)

\* The loop over the names of a request takes no name but those of the request.
LEMMA RequestNames ==
    ASSUME NEW names \in UNION {Added(request) : request \in Requests}
    PROVE  names \subseteq 1 .. NAdapters
  <1>1. PICK request \in Requests : names \in {TakenFrom(request), {}}
    BY DEF Added
  <1>2. PICK n \in 0 .. MaxNames : request \in [1 .. n -> 1 .. NAdapters]
    BY DEF Requests
  <1>3. n \in Nat /\ Len(request) = n
    BY <1>2, ConfigurationAssumption
  <1>4. TakenFrom(request) \subseteq 1 .. NAdapters
    BY <1>2, <1>3 DEF TakenFrom
  <1> QED
    BY <1>1, <1>4

\* What a request makes of what it has read and of what it is asked for.
LEMMA PutReadDraft ==
    ASSUME NEW t \in Clients, NEW c \in Content, PutMakes(t, c)
    PROVE  \E d \in Content :
              /\ draft' = [draft EXCEPT ![t] = d]
              /\ c.names \subseteq d.names
              /\ Junk \in d.names => Junk \in c.names
              /\ d.settings = Garbage => c.settings = Garbage
  <1>2. PICK names \in UNION {Added(request) : request \in Requests},
             s \in Settings \cup {c.settings} :
           draft' = [draft EXCEPT ![t] = [settings |-> s, names |-> Merged(c.names, names)]]
    BY DEF PutMakes
  <1>3. names \subseteq 1 .. NAdapters
    BY RequestNames
  <1> DEFINE d == [settings |-> s, names |-> Merged(c.names, names)]
  <1>5. d \in Content /\ c.names \subseteq d.names
    <2>1. c.names \subseteq Names /\ c.settings \in Settings \cup {Default, Garbage}
      BY DEF Content
    <2>2. 1 .. NAdapters \subseteq Names
      BY ConfigurationAssumption DEF Names, Junk
    <2> QED
      BY <1>3, <2>1, <2>2 DEF Merged, Content
  <1>6. Junk \in d.names => Junk \in c.names
    BY <1>3, ConfigurationAssumption DEF Merged, Junk
  <1>7. d.settings = Garbage => c.settings = Garbage
    BY ConfigurationAssumption
  <1> QED
    BY <1>2, <1>5, <1>6, <1>7

\* What a request reads.
LEMMA PutReadCases ==
    ASSUME TypeOK, NEW t \in Clients, PutRead(t)
    PROVE  \/ /\ Readable /\ file \in Content /\ PutMakes(t, file)
              /\ stale' = [stale EXCEPT ![t] = FALSE] /\ blindRead' = blindRead
           \/ /\ \E c \in Content : PutMakes(t, c)
              /\ stale' = [stale EXCEPT ![t] = TRUE] /\ blindRead' = TRUE
  <1>1. \A n \in UnsetNames : [settings |-> Garbage, names |-> n] \in Content
    BY ConfigurationAssumption DEF UnsetNames, Content, Names, Junk
  <1>2. Readable => file \in Content
    BY DEF Readable, TypeOK
  <1> QED
    BY <1>1, <1>2 DEF PutRead

\* The default configuration is one that AppConfig::write can write.
LEMMA DefaultType ==
    ASSUME TypeOK
    PROVE  /\ DefaultConfig \in Content
           /\ DefaultConfig.settings # Garbage
           /\ Junk \in DefaultConfig.names => Junk \in internalConfig.names
  BY ConfigurationAssumption
     DEF DefaultConfig, DefaultSettings, TypeOK, Content, Names, Junk

\* The numbers of the configurations: those of two adapters are apart.
LEMMA Numbers ==
    ASSUME NEW active \in SUBSET (1 .. NAdapters), NEW a \in active, NEW r \in BOOLEAN
    PROVE  /\ Number(active, a, r) \in Nat
           /\ Number(active, a, r) < 2 * NAdapters
           /\ Number(active, a, r) % 2 = (IF r THEN 1 ELSE 0)
           /\ \A b \in active : a < b =>
                 Number(active, a, r) \div 2 < Number(active, b, r) \div 2
  <1> DEFINE Before(b) == {c \in active : c < b}
  <1>1. NAdapters \in Nat
    BY ConfigurationAssumption
  <1>2. IsFiniteSet(1 .. NAdapters) /\ Cardinality(1 .. NAdapters) = NAdapters
    BY <1>1, FS_Interval
  <1>3. ASSUME NEW b \in active
        PROVE  /\ IsFiniteSet(Before(b)) /\ Cardinality(Before(b)) \in Nat
               /\ Number(active, b, r) = 2 * Cardinality(Before(b)) + (IF r THEN 1 ELSE 0)
    <2>1. Before(b) \subseteq 1 .. NAdapters
      OBVIOUS
    <2> QED
      BY <1>2, <2>1, FS_Subset, FS_CardinalityType DEF Number
  <1>4. Cardinality(Before(a)) < NAdapters
    <2>1. Before(a) \subseteq 1 .. NAdapters
      OBVIOUS
    <2>2. a \in 1 .. NAdapters /\ a \notin Before(a)
      <3>1. a \in 1 .. NAdapters /\ a \in Int
        BY <1>1
      <3>2. ~(a < a)
        BY <3>1
      <3> QED
        BY <3>1, <3>2
    <2>3. /\ Cardinality(Before(a)) <= Cardinality(1 .. NAdapters)
          /\ Cardinality(1 .. NAdapters) = Cardinality(Before(a)) => 1 .. NAdapters = Before(a)
      BY <1>2, <2>1, FS_Subset
    <2> HIDE DEF Before
    <2> QED
      BY <1>1, <1>2, <1>3, <2>2, <2>3
  <1>5. ASSUME NEW b \in active, a < b
        PROVE  Cardinality(Before(a)) < Cardinality(Before(b))
    <2>1. \A c \in active : c \in Int
      BY <1>1
    <2>2. Before(a) \subseteq Before(b)
      <3>1. \A c \in active : c < a => c < b
        BY <1>5, <2>1
      <3> QED
        BY <3>1
    <2>3. a \in Before(b) /\ a \notin Before(a)
      <3>1. ~(a < a)
        BY <2>1
      <3> QED
        BY <1>5, <3>1
    <2>4. /\ Cardinality(Before(a)) <= Cardinality(Before(b))
          /\ Cardinality(Before(b)) = Cardinality(Before(a)) => Before(b) = Before(a)
      BY <1>3, <2>2, FS_Subset
    <2> HIDE DEF Before
    <2> QED
      BY <1>3, <2>3, <2>4
  <1> HIDE DEF Before
  <1> QED
    BY <1>1, <1>3, <1>4, <1>5

\* The types of the configurations of a run.
LEMMA ConfigTypes ==
    ASSUME NEW active \in SUBSET (1 .. NAdapters)
    PROVE  generateUDPConfigs(active) \subseteq Configs
  <1> SUFFICES ASSUME NEW c \in generateUDPConfigs(active)
               PROVE  c \in Configs
    OBVIOUS
  <1>0. PICK a \in active, r \in BOOLEAN :
           c = [adapter |-> a, reciever |-> r, port |-> PortOf(Number(active, a, r)),
                uid |-> Number(active, a, r) % Uids]
    BY DEF generateUDPConfigs
  <1>1. NAdapters \in Nat /\ Ports \in Nat \ {0} /\ Uids \in Nat \ {0} /\ FirstPort \in Nat
    BY ConfigurationAssumption
  <1>2. Number(active, a, r) \in Nat
    BY Numbers
  <1>3. /\ PortOf(Number(active, a, r)) \in 0 .. Ports - 1
        /\ Number(active, a, r) % Uids \in 0 .. Uids - 1
    BY <1>1, <1>2 DEF PortOf
  <1> QED
    BY <1>0, <1>3 DEF Configs

-----------------------------------------------------------------------------
(* Types.                                                                  *)

LEMMA TypeInit == Init => TypeOK
  <1> SUFFICES ASSUME Init PROVE TypeOK
    OBVIOUS
  <1>1. Nothing \in Content
    BY DEF Nothing, Content
  <1> QED
    BY <1>1 DEF Init, TypeOK

\* The file, the configuration in memory and the drafts are contents.
LEMMA ContentTypes ==
    ASSUME TypeOK, NEW t \in Clients, Put(t) \/ Start(t) \/ StopRequest(t)
    PROVE  /\ file' \in Content \cup {NoFile, Empty}
           /\ internalConfig' \in Content
           /\ draft' \in [Clients -> Content]
           /\ owed' \subseteq Names
  <1> USE DEF memory, history, TypeOK, Goto
  <1>1. Nothing \in Content
    BY DEF Nothing, Content
  <1>2. \A c \in Content : c.names \subseteq Names
    BY DEF Content
  <1>3. CASE PutRead(t)
    <2>1. PICK d \in Content : draft' = [draft EXCEPT ![t] = d]
      BY <1>3, PutReadCases, PutReadDraft
    <2>2. UNCHANGED <<file, internalConfig, owed>>
      BY <1>3 DEF PutRead
    <2> QED
      BY <2>1, <2>2
  <1>4. CASE PutOpen(t) \/ PutOpenFails(t) \/ PutCloseFails(t)
    BY <1>1, <1>4 DEF PutOpen, PutOpenFails, PutCloseFails, PutEnds, Truncated
  <1>5. CASE PutClose(t)
    BY <1>1, <1>2, <1>5 DEF PutClose, PutEnds, Written, Overwrites
  <1>6. CASE StartRead(t)
    BY <1>6 DEF StartRead, Readable
  <1>7. CASE StartReadEmpty(t) \/ StartReadThrows(t)
    <2>1. \A n \in UnsetNames : [internalConfig EXCEPT !.names = n] \in Content
      BY ConfigurationAssumption DEF UnsetNames, Content, Names, Junk
    <2> QED
      BY <1>7, <2>1 DEF StartReadEmpty, StartReadThrows
  <1>8. CASE StartDefault(t) \/ StartDefaultRefused(t)
    BY <1>8, DefaultType DEF StartDefault, StartDefaultRefused
  <1>9. CASE StartDefaultClose(t)
    BY <1>2, <1>9 DEF StartDefaultClose, Overwrites
  <1>10. CASE \/ StartRequest(t) \/ StartInit(t) \/ StartMissing(t)
              \/ StartDefaultCloseFails(t) \/ StartReset(t) \/ StartNoAdapters(t)
              \/ StartEnds(t) \/ StopRequest(t)
    BY <1>10 DEF StartRequest, StartInit, StartMissing, StartDefaultCloseFails,
                 StartReset, StartNoAdapters, StartEnds, StopRequest
  <1> QED
    BY <1>3, <1>4, <1>5, <1>6, <1>7, <1>8, <1>9, <1>10 DEF Put, Start

\* The flags, the locations of the requests and the configurations.
LEMMA FlagTypes ==
    ASSUME TypeOK, NEW t \in Clients, Put(t) \/ Start(t) \/ StopRequest(t)
    PROVE  /\ {owned', dangling', startingUp', up'} \subseteq BOOLEAN
           /\ {blindRead', damaged', handed', spoilt'} \subseteq BOOLEAN
           /\ pc' \in [Clients -> Locations]
           /\ stale' \in [Clients -> BOOLEAN]
           /\ configs' \subseteq Configs
  <1> USE DEF memory, history, TypeOK, Goto, Locations, Configs
  <1>1. CASE PutRead(t)
    BY <1>1 DEF PutRead
  <1>2. CASE PutOpen(t) \/ PutOpenFails(t) \/ PutCloseFails(t)
    BY <1>2 DEF PutOpen, PutOpenFails, PutCloseFails, PutEnds
  <1>3. CASE PutClose(t)
    BY <1>3 DEF PutClose, PutEnds, Overwrites
  <1>4. CASE StartRequest(t) \/ StartInit(t)
    BY <1>4 DEF StartRequest, StartInit
  <1>5. CASE StartRead(t) \/ StartReadEmpty(t) \/ StartReadThrows(t)
    BY <1>5 DEF StartRead, StartReadEmpty, StartReadThrows, OwnedAfterRead
  <1>6. CASE StartMissing(t) \/ StartDefault(t) \/ StartDefaultRefused(t)
    BY <1>6 DEF StartMissing, StartDefault, StartDefaultRefused
  <1>7. CASE StartDefaultClose(t) \/ StartDefaultCloseFails(t)
    BY <1>7 DEF StartDefaultClose, StartDefaultCloseFails, Overwrites
  <1>8. CASE StartReset(t) \/ StartNoAdapters(t) \/ StopRequest(t)
    BY <1>8 DEF StartReset, StartNoAdapters, StopRequest
  <1>9. CASE StartEnds(t)
    <2>1. generateUDPConfigs(Activated) \subseteq Configs
      BY ConfigTypes DEF Activated, deactiveEverythingBut
    <2> QED
      BY <1>9, <2>1 DEF StartEnds
  <1> QED
    BY <1>1, <1>2, <1>3, <1>4, <1>5, <1>6, <1>7, <1>8, <1>9 DEF Put, Start

LEMMA TypeStep == TypeOK /\ [Next]_vars => TypeOK'
  <1> SUFFICES ASSUME TypeOK, [Next]_vars PROVE TypeOK'
    OBVIOUS
  <1>1. ASSUME NEW t \in Clients, Put(t) \/ Start(t) \/ StopRequest(t)
        PROVE  TypeOK'
    BY <1>1, ContentTypes, FlagTypes DEF TypeOK, Locations, Configs
  <1>2. CASE Restart
    <2>1. Nothing \in Content
      BY DEF Nothing, Content
    <2> QED
      BY <1>2, <2>1 DEF Restart, Fresh, TypeOK
  <1>3. CASE RemoveFile
    BY <1>3 DEF RemoveFile, memory, TypeOK
  <1>4. CASE UNCHANGED vars
    BY <1>4 DEF vars, memory, history, TypeOK
  <1> QED
    BY <1>1, <1>2, <1>3, <1>4 DEF Next

\* The file, the members and the requests keep their types, and ports and uids
\* their widths.
THEOREM ConfigurationTypes == Spec => []TypeOK
  BY TypeInit, TypeStep, PTL DEF Spec

-----------------------------------------------------------------------------
(* The file.                                                               *)

\* A file that is empty has a writer, or had one that was broken off.
LEMMA EmptyStep ==
    TypeOK /\ EmptyOnlyMidWrite /\ [Next]_vars => EmptyOnlyMidWrite'
  <1> SUFFICES ASSUME TypeOK, EmptyOnlyMidWrite, [Next]_vars, file' = Empty
               PROVE  damaged' \/ \E u \in Clients : pc'[u] \in {"close", "default"}
    BY DEF EmptyOnlyMidWrite, Writing
  <1> USE DEF memory, history, Goto, TypeOK
  <1>1. Empty \notin Content
    BY ConfigurationAssumption
  <1>2. ASSUME NEW t \in Clients,
               PutClose(t) \/ StartDefaultClose(t)
        PROVE  FALSE
    BY <1>1, <1>2 DEF PutClose, Written, StartDefaultClose
  <1>3. ASSUME NEW t \in Clients,
               PutOpen(t) \/ StartDefault(t)
        PROVE  pc'[t] \in {"close", "default"}
    BY <1>3 DEF PutOpen, StartDefault
  <1>4. ASSUME NEW t \in Clients,
               PutCloseFails(t) \/ StartDefaultCloseFails(t)
        PROVE  damaged'
    BY <1>4 DEF PutCloseFails, StartDefaultCloseFails
  <1>5. CASE Restart
    BY <1>5 DEF Restart, EmptyOnlyMidWrite
  <1>6. CASE /\ file' = file /\ damaged' = damaged
             /\ \A u \in Clients : pc[u] \in {"close", "default"} => pc'[u] = pc[u]
    BY <1>6 DEF EmptyOnlyMidWrite, Writing
  <1>7. ASSUME NEW t \in Clients,
               \/ PutRead(t) \/ PutOpenFails(t)
               \/ StartRequest(t) \/ StartInit(t)
               \/ StartRead(t) \/ StartReadEmpty(t) \/ StartReadThrows(t)
               \/ StartMissing(t) \/ StartDefaultRefused(t)
               \/ StartReset(t) \/ StartNoAdapters(t) \/ StartEnds(t) \/ StopRequest(t)
        PROVE  /\ file' = file /\ damaged' = damaged
               /\ \A u \in Clients : pc[u] \in {"close", "default"} => pc'[u] = pc[u]
    BY <1>7 DEF PutRead, PutOpenFails, PutEnds, StartRequest, StartInit, StartRead,
                StartReadEmpty, StartReadThrows, StartMissing, StartDefaultRefused,
                StartReset, StartNoAdapters, StartEnds, StopRequest
  <1>8. CASE UNCHANGED vars
    BY <1>6, <1>8 DEF vars
  <1>9. CASE RemoveFile
    BY <1>9, ConfigurationAssumption DEF RemoveFile
  <1> QED
    BY <1>2, <1>3, <1>4, <1>5, <1>6, <1>7, <1>8, <1>9 DEF Next, Put, Start

\* The names that are owed are in the file and in every draft of somebody who
\* has read the latest file.
LEMMA OwedStep ==
    TypeOK /\ CompletedPutsSurvive /\ Drafts /\ [Next]_vars
    => CompletedPutsSurvive' /\ Drafts'
  <1> SUFFICES ASSUME TypeOK, CompletedPutsSurvive, Drafts, [Next]_vars
               PROVE  CompletedPutsSurvive' /\ Drafts'
    OBVIOUS
  <1> USE DEF memory, history, Goto
  <1>1. NoFile \notin Content /\ Empty \notin Content /\ NoFile # Empty
    BY ConfigurationAssumption
  <1>2. ASSUME NEW t \in Clients, PutRead(t)
        PROVE  CompletedPutsSurvive' /\ Drafts'
    <2>1. UNCHANGED <<file, owed>> /\ pc' = [pc EXCEPT ![t] = "open"]
      BY <1>2 DEF PutRead
    <2>2. PICK d \in Content :
             /\ draft' = [draft EXCEPT ![t] = d]
             /\ \/ stale' = [stale EXCEPT ![t] = FALSE] /\ owed \subseteq d.names
                \/ stale' = [stale EXCEPT ![t] = TRUE]
      BY <1>2, PutReadCases, PutReadDraft DEF CompletedPutsSurvive
    <2> QED
      BY <2>1, <2>2 DEF CompletedPutsSurvive, Drafts, Readable, TypeOK
  <1>3. ASSUME NEW t \in Clients, PutOpen(t) \/ StartDefault(t)
        PROVE  CompletedPutsSurvive' /\ Drafts'
    BY <1>1, <1>3 DEF PutOpen, Truncated, StartDefault, CompletedPutsSurvive, Drafts,
                      Readable, TypeOK
  <1>4. ASSUME NEW t \in Clients, PutClose(t)
        PROVE  CompletedPutsSurvive' /\ Drafts'
    <2>1. file' = draft[t] /\ file' \in Content
      BY <1>4 DEF PutClose, Written, TypeOK
    <2>2. owed' = IF stale[t] THEN draft[t].names ELSE owed \cup draft[t].names
      BY <1>4 DEF PutClose, Overwrites
    <2>3. ~stale[t] => owed \subseteq draft[t].names
      BY <1>4 DEF PutClose, Drafts
    <2>4. \A u \in Clients : stale'[u] \/ pc'[u] \notin {"open", "close", "create", "default"}
      BY <1>4 DEF PutClose, PutEnds, Overwrites, TypeOK
    <2>5. CompletedPutsSurvive'
      BY <2>1, <2>2, <2>3 DEF CompletedPutsSurvive
    <2> QED
      BY <1>1, <2>1, <2>4, <2>5 DEF Drafts
  <1>5. ASSUME NEW t \in Clients, StartDefaultClose(t)
        PROVE  CompletedPutsSurvive' /\ Drafts'
    <2>1. file' = internalConfig /\ file' \in Content
      BY <1>5 DEF StartDefaultClose, TypeOK
    <2>2. owed' = IF stale[t] THEN internalConfig.names ELSE owed \cup internalConfig.names
      BY <1>5 DEF StartDefaultClose, Overwrites
    <2>3. ~stale[t] => owed = {}
      BY <1>5 DEF StartDefaultClose, Drafts
    <2>4. \A u \in Clients : stale'[u] \/ pc'[u] \notin {"open", "close", "create", "default"}
      BY <1>5 DEF StartDefaultClose, Overwrites, TypeOK
    <2>5. CompletedPutsSurvive'
      BY <2>1, <2>2, <2>3 DEF CompletedPutsSurvive
    <2> QED
      BY <1>1, <2>1, <2>4, <2>5 DEF Drafts
  <1>6. ASSUME NEW t \in Clients, StartMissing(t)
        PROVE  CompletedPutsSurvive' /\ Drafts'
    BY <1>6 DEF StartMissing, CompletedPutsSurvive, Drafts, Readable, TypeOK
  <1>7. CASE /\ UNCHANGED <<file, owed>>
             /\ \A u \in Clients :
                   \/ pc'[u] \notin {"open", "close", "create", "default"}
                   \/ pc'[u] = pc[u] /\ stale'[u] = stale[u] /\ draft'[u] = draft[u]
    BY <1>7 DEF CompletedPutsSurvive, Drafts, Readable
  <1>8. ASSUME NEW t \in Clients,
               \/ PutOpenFails(t) \/ PutCloseFails(t)
               \/ StartRequest(t) \/ StartInit(t)
               \/ StartRead(t) \/ StartReadEmpty(t) \/ StartReadThrows(t)
               \/ StartDefaultRefused(t) \/ StartDefaultCloseFails(t)
               \/ StartReset(t) \/ StartNoAdapters(t) \/ StartEnds(t) \/ StopRequest(t)
        PROVE  /\ UNCHANGED <<file, owed>>
               /\ \A u \in Clients :
                     \/ pc'[u] \notin {"open", "close", "create", "default"}
                     \/ pc'[u] = pc[u] /\ stale'[u] = stale[u] /\ draft'[u] = draft[u]
    BY <1>8 DEF PutOpenFails, PutCloseFails, PutEnds, StartRequest, StartInit, StartRead,
                StartReadEmpty, StartReadThrows, StartDefaultRefused,
                StartDefaultCloseFails, StartReset, StartNoAdapters, StartEnds,
                StopRequest, TypeOK
  <1>9. CASE Restart
    BY <1>7, <1>9 DEF Restart, Fresh
  <1>10. CASE UNCHANGED vars
    BY <1>7, <1>10 DEF vars
  <1>11. CASE RemoveFile
    BY <1>11 DEF RemoveFile, CompletedPutsSurvive, Drafts, Readable
  <1> QED
    BY <1>2, <1>3, <1>4, <1>5, <1>6, <1>7, <1>8, <1>9, <1>10, <1>11 DEF Next, Put, Start

\* A value that nobody set comes from a read that found nothing.
LEMMA AskedStep == TypeOK /\ Asked /\ [Next]_vars => Asked'
  <1> SUFFICES ASSUME TypeOK, Asked, [Next]_vars, ~blindRead'
               PROVE  /\ Readable' => ~Unset(file)'
                      /\ \A u \in Clients : pc'[u] \in {"open", "close"} => ~Unset(draft[u])'
                      /\ Junk \notin internalConfig'.names
                      /\ up' => internalConfig'.settings # Garbage
                      /\ \A u \in Clients : pc'[u] \in {"default", "reset", "select"} =>
                            internalConfig'.settings # Garbage
    BY DEF Asked, Junk
  <1> DEFINE Goal == /\ Readable' => ~Unset(file)'
                     /\ \A u \in Clients : pc'[u] \in {"open", "close"} => ~Unset(draft[u])'
                     /\ Junk \notin internalConfig'.names
                     /\ up' => internalConfig'.settings # Garbage
                     /\ \A u \in Clients : pc'[u] \in {"default", "reset", "select"} =>
                           internalConfig'.settings # Garbage
  <1> USE DEF memory, history, Goto
  <1>1. /\ ~blindRead
        /\ Readable => ~Unset(file)
        /\ \A u \in Clients : pc[u] \in {"open", "close"} => ~Unset(draft[u])
        /\ Junk \notin internalConfig.names
        /\ up => internalConfig.settings # Garbage
        /\ \A u \in Clients : pc[u] \in {"default", "reset", "select"} =>
              internalConfig.settings # Garbage
    <2>1. blindRead => blindRead'
      BY DEF Next, Put, Start, Restart, PutRead, PutOpen, PutOpenFails, PutClose,
             PutCloseFails, StartRequest, StartInit, StartRead, StartReadEmpty,
             StartReadThrows, StartMissing, StartDefault, StartDefaultRefused,
             StartDefaultClose, StartDefaultCloseFails, StartReset, StartNoAdapters,
             StartEnds, StopRequest, RemoveFile, vars
    <2> QED
      BY <2>1 DEF Asked
  <1>2. ASSUME NEW t \in Clients, PutRead(t)
        PROVE  Goal
    <2>1. Readable /\ file \in Content /\ PutMakes(t, file)
      BY <1>2, PutReadCases
    <2>3. PICK d \in Content : draft' = [draft EXCEPT ![t] = d] /\ ~Unset(d)
      BY <1>1, <2>1, PutReadDraft DEF Unset
    <2>4. /\ UNCHANGED <<file, internalConfig, up>>
          /\ pc' = [pc EXCEPT ![t] = "open"]
      BY <1>2 DEF PutRead
    <2> QED
      BY <1>1, <2>3, <2>4 DEF Readable, Unset, TypeOK
  <1>3. ASSUME NEW t \in Clients, PutOpen(t)
        PROVE  Goal
    BY <1>1, <1>3 DEF PutOpen, Truncated, Readable, Unset, TypeOK
  <1>4. ASSUME NEW t \in Clients, PutClose(t)
        PROVE  Goal
    BY <1>1, <1>4 DEF PutClose, PutEnds, Written, Readable, Unset, TypeOK
  <1>5. ASSUME NEW t \in Clients, PutOpenFails(t) \/ PutCloseFails(t)
        PROVE  Goal
    BY <1>1, <1>5 DEF PutOpenFails, PutCloseFails, PutEnds, Readable, Unset, TypeOK
  <1>6. ASSUME NEW t \in Clients, StartRead(t)
        PROVE  Goal
    BY <1>1, <1>6 DEF StartRead, Readable, Unset, TypeOK
  <1>7. ASSUME NEW t \in Clients, StartReadEmpty(t) \/ StartReadThrows(t)
        PROVE  Goal
    BY <1>7 DEF StartReadEmpty, StartReadThrows
  <1>8. ASSUME NEW t \in Clients, StartDefault(t) \/ StartDefaultRefused(t)
        PROVE  Goal
    BY <1>1, <1>8, DefaultType
       DEF StartDefault, StartDefaultRefused, Readable, Unset, TypeOK
  <1>9. ASSUME NEW t \in Clients, StartDefaultClose(t) \/ StartDefaultCloseFails(t)
        PROVE  Goal
    BY <1>1, <1>9 DEF StartDefaultClose, StartDefaultCloseFails, Readable, Unset, TypeOK
  <1>10. ASSUME NEW t \in Clients,
                StartRequest(t) \/ StartInit(t) \/ StartMissing(t) \/ StartReset(t)
         PROVE  Goal
    BY <1>1, <1>10
       DEF StartRequest, StartInit, StartMissing, StartReset, Readable, Unset, TypeOK
  <1>11. ASSUME NEW t \in Clients, StartNoAdapters(t) \/ StartEnds(t) \/ StopRequest(t)
         PROVE  Goal
    BY <1>1, <1>11 DEF StartNoAdapters, StartEnds, StopRequest, Readable, Unset, TypeOK
  <1>12. CASE Restart
    BY <1>1, <1>12 DEF Restart, Fresh, Nothing, Readable, Unset
  <1>13. CASE RemoveFile \/ UNCHANGED vars
    BY <1>1, <1>13 DEF RemoveFile, vars, Readable, Unset
  <1>14. CASE \E t \in Clients : Put(t)
    BY <1>2, <1>3, <1>4, <1>5, <1>14 DEF Put
  <1>15. CASE \E t \in Clients : Start(t) \/ StopRequest(t)
    BY <1>6, <1>7, <1>8, <1>9, <1>10, <1>11, <1>15 DEF Start
  <1> QED
    BY <1>12, <1>13, <1>14, <1>15 DEF Next

-----------------------------------------------------------------------------
(* The vector of names.                                                    *)

LEMMA OwnershipStep == TypeOK /\ Ownership /\ [Next]_vars => Ownership'
  <1> SUFFICES ASSUME TypeOK, Ownership, [Next]_vars PROVE Ownership'
    OBVIOUS
  <1> USE DEF memory, history, Goto
  <1>1. ASSUME NEW t \in Clients, Put(t)
        PROVE  Ownership'
    <2>1. /\ UNCHANGED <<owned, dangling, handed, spoilt>>
          /\ \E l \in {"idle", "open", "close"} : pc' = [pc EXCEPT ![t] = l]
      BY <1>1 DEF Put, PutRead, PutOpen, PutOpenFails, PutClose, PutCloseFails, PutEnds
    <2> QED
      BY <2>1 DEF Starting, Ownership, TypeOK
  <1>2. ASSUME NEW t \in Clients, StartRequest(t) \/ StartInit(t)
        PROVE  Ownership'
    BY <1>2 DEF StartRequest, StartInit, Starting, Ownership, TypeOK
  <1>3. ASSUME NEW t \in Clients, StartRead(t) \/ StartReadEmpty(t) \/ StartReadThrows(t)
        PROVE  Ownership'
    BY <1>3 DEF StartRead, StartReadEmpty, StartReadThrows, OwnedAfterRead, Starting,
                Ownership, TypeOK
  <1>4. ASSUME NEW t \in Clients, StartMissing(t)
        PROVE  Ownership'
    BY <1>4 DEF StartMissing, Starting, Ownership, TypeOK
  <1>5. ASSUME NEW t \in Clients,
               \/ StartDefault(t) \/ StartDefaultRefused(t)
               \/ StartDefaultClose(t) \/ StartDefaultCloseFails(t)
        PROVE  Ownership'
    BY <1>5 DEF StartDefault, StartDefaultRefused, StartDefaultClose, StartDefaultCloseFails,
                Starting, Ownership, TypeOK
  <1>6. ASSUME NEW t \in Clients, StartReset(t)
        PROVE  Ownership'
    <2>1. /\ pc' = [pc EXCEPT ![t] = "select"] /\ pc[t] = "reset"
          /\ dangling' = owned /\ handed' /\ spoilt' = spoilt
      BY <1>6 DEF StartReset
    <2>2. CASE spoilt
      BY <2>1, <2>2 DEF Ownership
    <2>3. CASE ~spoilt
      <3>1. ~owned /\ Starting(t)
        BY <2>1, <2>3 DEF Ownership, Starting
      <3>2. \A u \in Clients : Starting(u) => u = t
        BY <2>3, <3>1 DEF Ownership
      <3>3. ~dangling'
        BY <2>1, <3>1
      <3>4. \A u \in Clients : u # t => pc'[u] \notin {"read", "create", "default", "reset", "select"}
        BY <2>1, <3>2 DEF Starting, TypeOK
      <3>5. pc'[t] = "select"
        BY <2>1 DEF TypeOK
      <3> QED
        BY <2>1, <3>3, <3>4, <3>5 DEF Ownership, Starting
    <2> QED
      BY <2>2, <2>3
  <1>7. ASSUME NEW t \in Clients, StartNoAdapters(t) \/ StartEnds(t) \/ StopRequest(t)
        PROVE  Ownership'
    BY <1>7 DEF StartNoAdapters, StartEnds, StopRequest, Starting, Ownership, TypeOK
  <1>8. CASE Restart
    BY <1>8 DEF Restart, Fresh, Starting, Ownership
  <1>9. CASE RemoveFile \/ UNCHANGED vars
    BY <1>9 DEF RemoveFile, vars, Starting, Ownership
  <1> QED
    BY <1>1, <1>2, <1>3, <1>4, <1>5, <1>6, <1>7, <1>8, <1>9 DEF Next, Start

-----------------------------------------------------------------------------
(* The configurations of a run.                                            *)

\* The configurations of a run are those of some set of adapters.
Generated ==
    \/ configs = {}
    \/ \E active \in SUBSET (1 .. NAdapters) : configs = generateUDPConfigs(active)

LEMMA GeneratedStep == Generated /\ [Next]_vars => Generated'
  <1> SUFFICES ASSUME Generated, [Next]_vars PROVE Generated'
    OBVIOUS
  <1> USE DEF memory, history
  <1>1. \/ configs' = configs
        \/ configs' = {}
        \/ configs' = generateUDPConfigs(Activated)
    BY DEF Next, Put, Start, Restart, Fresh, PutRead, PutOpen, PutOpenFails, PutClose,
           PutCloseFails, StartRequest, StartInit, StartRead, StartReadEmpty,
           StartReadThrows, StartMissing, StartDefault, StartDefaultRefused,
           StartDefaultClose, StartDefaultCloseFails, StartReset, StartNoAdapters,
           StartEnds, StopRequest, RemoveFile, vars
  <1>2. Activated \in SUBSET (1 .. NAdapters)
    BY DEF Activated, deactiveEverythingBut
  <1>3. CASE configs' = configs
    BY <1>3 DEF Generated
  <1>4. CASE configs' = {}
    BY <1>4 DEF Generated
  <1>5. CASE configs' = generateUDPConfigs(Activated)
    <2>1. \E active \in SUBSET (1 .. NAdapters) : configs' = generateUDPConfigs(active)
      BY <1>2, <1>5
    <2> QED
      BY <2>1 DEF Generated
  <1> QED
    BY <1>1, <1>3, <1>4, <1>5

\* Two numbers less than n apart differ modulo n.
LEMMA ModuloApart ==
    ASSUME NEW n \in Nat \ {0}, NEW x \in Nat, NEW y \in Nat, x < y, y - x < n
    PROVE  x % n # y % n
  <1> SUFFICES ASSUME x % n = y % n PROVE FALSE
    OBVIOUS
  <1>1. /\ x = n * (x \div n) + (x % n) /\ y = n * (y \div n) + (y % n)
        /\ x \div n \in Int /\ y \div n \in Int /\ x % n \in 0 .. n - 1
    OBVIOUS
  <1> DEFINE k == (y \div n) - (x \div n)
  <1>2. k \in Int /\ y - x = n * k
    BY <1>1
  <1> HIDE DEF k
  <1>3. k > 0
    BY <1>2
  <1>4. n * k >= n
    BY <1>2, <1>3
  <1> QED
    BY <1>2, <1>4

\* The ports and the uids of the configurations of an adapter list, on a machine
\* with few enough adapters for the widths of a port and of a uid.
LEMMA ConfigsApart ==
    ASSUME NAdapters <= Ports, 2 * NAdapters <= Uids,
           NEW active \in SUBSET (1 .. NAdapters),
           NEW c \in generateUDPConfigs(active), NEW d \in generateUDPConfigs(active)
    PROVE  /\ c.port = d.port <=> c.adapter = d.adapter
           /\ c # d => c.uid # d.uid
  <1>1. PICK a \in active, r \in BOOLEAN :
           c = [adapter |-> a, reciever |-> r, port |-> PortOf(Number(active, a, r)),
                uid |-> Number(active, a, r) % Uids]
    BY DEF generateUDPConfigs
  <1>2. PICK b \in active, q \in BOOLEAN :
           d = [adapter |-> b, reciever |-> q, port |-> PortOf(Number(active, b, q)),
                uid |-> Number(active, b, q) % Uids]
    BY DEF generateUDPConfigs
  <1> DEFINE i == Number(active, a, r)
             j == Number(active, b, q)
  <1>3. /\ NAdapters \in Nat /\ Ports \in Nat \ {0} /\ Uids \in Nat \ {0}
        /\ FirstPort \in Nat /\ a \in Nat /\ b \in Nat
    BY ConfigurationAssumption
  <1>4. /\ i \in Nat /\ i < 2 * NAdapters /\ i % 2 = (IF r THEN 1 ELSE 0)
        /\ j \in Nat /\ j < 2 * NAdapters /\ j % 2 = (IF q THEN 1 ELSE 0)
    BY Numbers
  <1>5. a = b <=> i \div 2 = j \div 2
    <2>1. /\ a < b => i \div 2 < Number(active, b, r) \div 2
          /\ b < a => j \div 2 < Number(active, a, q) \div 2
      BY Numbers
    <2>2. /\ Number(active, b, r) \div 2 = j \div 2
          /\ Number(active, a, q) \div 2 = i \div 2
      <3>1. ASSUME NEW e \in active
            PROVE  Cardinality({x \in active : x < e}) \in Nat
        <4>1. {x \in active : x < e} \subseteq 1 .. NAdapters
          OBVIOUS
        <4>2. IsFiniteSet(1 .. NAdapters)
          BY <1>3, FS_Interval
        <4>3. IsFiniteSet({x \in active : x < e})
          BY <4>1, <4>2, FS_Subset
        <4> QED
          BY <4>3, FS_CardinalityType
      <3> QED
        BY <3>1 DEF Number
    <2>3. i \div 2 \in Int /\ j \div 2 \in Int
      BY <1>4
    <2>4. CASE a = b
      BY <2>2, <2>4
    <2>5. CASE a # b
      BY <1>3, <2>1, <2>2, <2>3, <2>5
    <2> QED
      BY <2>4, <2>5
  <1> HIDE DEF i, j
  <1>6. i \div 2 \in 0 .. NAdapters - 1 /\ j \div 2 \in 0 .. NAdapters - 1
    BY <1>3, <1>4
  <1>7. PortOf(i) = PortOf(j) <=> i \div 2 = j \div 2
    <2> DEFINE x == FirstPort + i \div 2
               y == FirstPort + j \div 2
    <2>1. /\ x \in Nat /\ y \in Nat /\ x - y < Ports /\ y - x < Ports
          /\ PortOf(i) = x % Ports /\ PortOf(j) = y % Ports
          /\ x = y <=> i \div 2 = j \div 2
      BY <1>3, <1>6 DEF PortOf
    <2> HIDE DEF x, y
    <2>2. x < y => x % Ports # y % Ports
      BY <1>3, <2>1, ModuloApart
    <2>3. y < x => y % Ports # x % Ports
      BY <1>3, <2>1, ModuloApart
    <2> QED
      BY <2>1, <2>2, <2>3
  <1>8. i % Uids = j % Uids => i = j
    <2>1. i - j < Uids /\ j - i < Uids
      BY <1>3, <1>4
    <2>2. i < j => i % Uids # j % Uids
      BY <1>3, <1>4, <2>1, ModuloApart
    <2>3. j < i => j % Uids # i % Uids
      BY <1>3, <1>4, <2>1, ModuloApart
    <2> QED
      BY <1>4, <2>2, <2>3
  <1>9. i = j => a = b /\ r = q
    BY <1>4, <1>5
  <1> QED
    BY <1>1, <1>2, <1>5, <1>7, <1>8, <1>9 DEF i, j

-----------------------------------------------------------------------------
(* The theorems.                                                           *)

\* What the requests and the starts in progress, the file and the memory need
\* of each other holds of every state.
THEOREM ConfigurationInductive == Spec => []ConfigurationInv
  <1>1. Init => ConfigurationInv
    <2> SUFFICES ASSUME Init PROVE ConfigurationInv
      OBVIOUS
    <2>1. CompletedPutsSurvive /\ Drafts /\ EmptyOnlyMidWrite
      BY ConfigurationAssumption
         DEF Init, CompletedPutsSurvive, Drafts, EmptyOnlyMidWrite
    <2>2. Asked /\ Ownership
      BY DEF Init, Asked, Ownership, Readable, Nothing, Starting
    <2> QED
      BY <2>1, <2>2, TypeInit DEF ConfigurationInv
  <1>2. ConfigurationInv /\ [Next]_vars => ConfigurationInv'
    BY TypeStep, EmptyStep, OwedStep, AskedStep, OwnershipStep DEF ConfigurationInv
  <1> QED
    BY <1>1, <1>2, PTL DEF Spec

\* The file is empty only while somebody writes it or after a crash in the
\* middle of that.
THEOREM ConfigurationEmpty == Spec => []EmptyOnlyMidWrite
  <1>1. ConfigurationInv => EmptyOnlyMidWrite
    BY DEF ConfigurationInv
  <1> QED
    BY <1>1, ConfigurationInductive, PTL

\* The names of completed requests stay in the file, but for writers that have
\* not read it.
THEOREM ConfigurationSurvives == Spec => []CompletedPutsSurvive
  <1>1. ConfigurationInv => CompletedPutsSurvive
    BY DEF ConfigurationInv
  <1> QED
    BY <1>1, ConfigurationInductive, PTL

\* Reads that find nothing are the only source of unset values.
THEOREM ConfigurationAsked == Spec => []OnlyAskedFor
  <1>1. ConfigurationInv => OnlyAskedFor
    BY DEF ConfigurationInv, Asked, OnlyAskedFor, Unset
  <1> QED
    BY <1>1, ConfigurationInductive, PTL

\* A start reads the names of a live vector, unless in its process a start could
\* not open the file after an earlier one had handed its names over, or two
\* starts were under way at once.
THEOREM ConfigurationNames == Spec => []NamesAlive
  <1>1. ConfigurationInv => NamesAlive
    BY DEF ConfigurationInv, Ownership, NamesAlive
  <1> QED
    BY <1>1, ConfigurationInductive, PTL

\* The ports and uids of a run do not collide as long as the adapters are no
\* more than there are ports and half of the uids: 128 of them with a uint8_t.
THEOREM ConfigurationDistinct ==
    ASSUME NAdapters <= Ports, 2 * NAdapters <= Uids
    PROVE  Spec => []ConfigsDistinct
  <1>1. Init => Generated
    BY DEF Init, Generated
  <1>2. Generated => ConfigsDistinct
    BY ConfigsApart DEF Generated, ConfigsDistinct
  <1> QED
    BY <1>1, <1>2, GeneratedStep, PTL DEF Spec
=============================================================================
