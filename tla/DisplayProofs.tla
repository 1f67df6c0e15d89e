---------------------------- MODULE DisplayProofs ----------------------------
(***************************************************************************)
(* The merge agrees with its reference, what is shown is as fresh as it    *)
(* says, and it is the first body that fits: for every set of printers and *)
(* fields, every window, length of a poll, size and ceiling.               *)
(***************************************************************************)
EXTENDS Display, FiniteSetTheorems, SequenceTheorems, TLAPS

-----------------------------------------------------------------------------

\* Nothing was said after now, and no poll ended before one that said something.
NotAhead ==
  /\ polling <= clock
  /\ \A p \in Printer, s \in Provider, f \in Field : said[p][s][f] <= clock
  /\ polling # Never => \A p \in Printer, f \in Field : said[p]["cloud-http"][f] <= polling

IInv == TypeOK /\ NotAhead /\ LastWordKept

Time == 0 .. MaxTime
Said == Time \cup {Never}
AnyEntry == Entry \cup {Unheard}

Follows(entry, live, coarse) == <<entry.from, entry.at>> = LastWord(live, coarse)

LEMMA Times == MaxTime \in Nat /\ Never \notin Time /\ Time \subseteq Nat /\ Said \subseteq Int
BY DisplayAssumption DEF Time, Said, Never

\* An entry by its source.
LEMMA Sources ==
  ASSUME NEW e \in AnyEntry
  PROVE  /\ e.from \in Provider \cup {"none"} /\ e.at \in Time
         /\ e.from = "none" => e.at = 0
BY Times DEF AnyEntry, Entry, Unheard, Provider, Time

LEMMA Ranks == RANK["cloud-mqtt"] = 2 /\ RANK["cloud-http"] = 1
BY DEF RANK, Provider

\* A live report always takes the field.
LEMMA LiveTakes ==
  ASSUME NEW e \in AnyEntry, NEW live \in Said, NEW coarse \in Said, NEW now \in Time,
         live <= now, coarse <= now, Follows(e, live, coarse)
  PROVE  /\ admits(e, "cloud-mqtt", now)
         /\ LastWord(now, coarse) = <<"cloud-mqtt", now>>
<1>1. LastWord(now, coarse) = <<"cloud-mqtt", now>>
  <2>1. now # Never /\ coarse - now <= AuthorityWindow
    BY Times, WindowsAssumption
  <2> QED BY <2>1 DEF LastWord
<1>2. e.from \in {"cloud-mqtt", "cloud-http", "none"} /\ e.at \in Time
  BY Sources DEF Provider
<1>3. ASSUME e.from = "cloud-mqtt" PROVE admits(e, "cloud-mqtt", now)
  <2>1. e.at = live
    BY <1>3 DEF Follows, LastWord
  <2>2. now >= e.at
    BY <2>1, Times
  <2> QED BY <1>3, <2>2, Ranks DEF admits
<1>4. ASSUME e.from # "cloud-mqtt" PROVE admits(e, "cloud-mqtt", now)
  BY <1>2, <1>4, Ranks DEF admits
<1> QED BY <1>1, <1>3, <1>4

\* A poll takes it exactly when the reference says so.
LEMMA CoarseTakes ==
  ASSUME NEW e \in AnyEntry, NEW live \in Said, NEW coarse \in Said, NEW at \in Time,
         coarse <= at, Follows(e, live, coarse)
  PROVE  /\ admits(e, "cloud-http", at) => LastWord(live, at) = <<"cloud-http", at>>
         /\ ~ admits(e, "cloud-http", at) => LastWord(live, at) = <<e.from, e.at>>
<1> USE Times, WindowsAssumption, Ranks
<1>1. e.from \in {"cloud-mqtt", "cloud-http", "none"} /\ e.at \in Time
  BY Sources DEF Provider
<1>2. at # Never
  OBVIOUS
<1>3. CASE e.from = "none"
  <2>1. live = Never
    <3>1. CASE coarse = Never
      BY <1>3, <3>1 DEF Follows, LastWord
    <3>2. CASE coarse # Never
      BY <1>3, <3>2 DEF Follows, LastWord
    <3> QED BY <3>1, <3>2
  <2>2. admits(e, "cloud-http", at)
    BY <1>3 DEF admits
  <2> QED BY <1>2, <2>1, <2>2 DEF LastWord
<1>4. CASE e.from = "cloud-http"
  <2>1. coarse # Never /\ e.at = coarse /\ (live # Never => coarse - live > AuthorityWindow)
    BY <1>4 DEF Follows, LastWord
  <2>2. admits(e, "cloud-http", at)
    BY <1>4, <2>1 DEF admits
  <2>3. live # Never => at - live > AuthorityWindow
    BY <2>1
  <2> QED BY <1>2, <2>2, <2>3 DEF LastWord
<1>5. CASE e.from = "cloud-mqtt"
  <2>1. live # Never /\ e.at = live
    BY <1>5 DEF Follows, LastWord
  <2>2. admits(e, "cloud-http", at) <=> at - live > AuthorityWindow
    BY <1>5, <2>1 DEF admits
  <2> QED BY <1>2, <1>5, <2>1, <2>2 DEF LastWord
<1> QED BY <1>1, <1>3, <1>4, <1>5

-----------------------------------------------------------------------------
(* The steps. *)

LEMMA InitIInv == Init => IInv
<1> SUFFICES ASSUME Init PROVE IInv
  OBVIOUS
<1>1. TypeOK
  BY DisplayAssumption DEF Init, TypeOK, unknownPrinterState
<1>2. NotAhead
  BY DEF Init, NotAhead, Never
<1>3. LastWordKept
  BY DEF Init, LastWordKept, LastWord, unknownPrinterState, Unheard, Provider
<1> QED BY <1>1, <1>2, <1>3 DEF IInv

Value == DisplayState \cup {Given}

\* A payload is a function on the fields it mentions; its normal form mentions
\* the same, with values of a record.
LEMMA Parsed ==
  ASSUME NEW raw
  PROVE  /\ DOMAIN parseReport(raw) = DOMAIN raw
         /\ DOMAIN parseBindReport(raw) = DOMAIN raw
         /\ DOMAIN parseCurrentPrint(raw) = DOMAIN raw
         /\ \A f \in DOMAIN raw : /\ parseReport(raw)[f] \in Value
                                  /\ parseBindReport(raw)[f] \in Value
                                  /\ parseCurrentPrint(raw)[f] \in Value
<1>1. \A token : toDisplayState(token) \in DisplayState
  BY DEF toDisplayState, LIVE_STATE_BY_TOKEN, DisplayState
<1>2. \A token : fromTaskStatus(token) \in DisplayState
  BY <1>1 DEF fromTaskStatus, DisplayState
<1> QED BY <1>1, <1>2 DEF parseReport, parseBindReport, parseCurrentPrint, Value

\* What an observation makes of a record, field by field.
LEMMA Accepted ==
  ASSUME NEW r \in [Field -> AnyEntry], NEW from \in Provider, NEW at \in Time,
         NEW fields, \A f \in DOMAIN fields : fields[f] \in Value,
         NEW r2, r2 = accept(r, Observation(from, at, fields))
  PROVE  /\ r2 \in [Field -> AnyEntry]
         /\ \A f \in Field :
              IF f \in DOMAIN fields /\ admits(r[f], from, at)
              THEN r2[f].from = from /\ r2[f].at = at
              ELSE r2[f] = r[f]
<1> DEFINE o == Observation(from, at, fields)
<1>1. o.from = from /\ o.at = at /\ o.fields = fields
  BY DEF Observation
<1>2. \A f \in DOMAIN fields : [value |-> fields[f], from |-> from, at |-> at] \in AnyEntry
  BY DEF AnyEntry, Entry, Time, Value
<1>3. r2 = [f \in Field |-> IF f \in DOMAIN fields /\ admits(r[f], from, at)
                            THEN [value |-> fields[f], from |-> from, at |-> at]
                            ELSE r[f]]
  BY <1>1 DEF accept
<1> HIDE DEF o
<1> QED BY <1>2, <1>3

\* Two observations of one source and time make what one of both would.
LEMMA AcceptedTwice ==
  ASSUME NEW r \in [Field -> AnyEntry], NEW from \in Provider, NEW at \in Time,
         NEW one, \A f \in DOMAIN one : one[f] \in Value,
         NEW two, \A f \in DOMAIN two : two[f] \in Value,
         NEW r3, r3 = accept(accept(r, Observation(from, at, one)),
                             Observation(from, at, two))
  PROVE  /\ r3 \in [Field -> AnyEntry]
         /\ \A f \in Field :
              IF f \in DOMAIN one \cup DOMAIN two /\ admits(r[f], from, at)
              THEN r3[f].from = from /\ r3[f].at = at
              ELSE r3[f] = r[f]
<1>1. PICK r2 : r2 = accept(r, Observation(from, at, one))
  OBVIOUS
<1>2. /\ r2 \in [Field -> AnyEntry]
      /\ \A f \in Field :
           IF f \in DOMAIN one /\ admits(r[f], from, at)
           THEN r2[f].from = from /\ r2[f].at = at
           ELSE r2[f] = r[f]
  BY <1>1, Accepted
<1>3. r3 = accept(r2, Observation(from, at, two))
  BY <1>1
<1>4. /\ r3 \in [Field -> AnyEntry]
      /\ \A f \in Field :
           IF f \in DOMAIN two /\ admits(r2[f], from, at)
           THEN r3[f].from = from /\ r3[f].at = at
           ELSE r3[f] = r2[f]
  BY <1>2, <1>3, Accepted
<1>5. ASSUME NEW f \in Field, r2[f].from = from, r2[f].at = at
      PROVE  admits(r2[f], from, at)
  <2>1. from # "none" /\ RANK[from] = RANK[from] /\ at >= at
    BY Times DEF Provider
  <2> QED BY <1>5, <2>1 DEF admits
<1> QED BY <1>2, <1>4, <1>5

LEMMA ReportKeeps ==
  ASSUME IInv, NEW p \in Printer, Report(p)
  PROVE  IInv'
<1>1. PICK raw \in Reports \ {Silence} :
        /\ record' = [record EXCEPT ![p] =
             accept(@, Observation("cloud-mqtt", clock, parseReport(raw)))]
        /\ said' = [said EXCEPT ![p]["cloud-mqtt"] =
             [f \in Field |-> IF f \in DOMAIN raw THEN clock ELSE @[f]]]
        /\ UNCHANGED <<clock, polling>>
  BY DEF Report
<1> DEFINE fields == DOMAIN raw
<1> HIDE DEF fields
<1>2. "cloud-mqtt" \in Provider
  BY DEF Provider
<1>3. /\ clock \in Time /\ polling \in Said
      /\ record \in [Printer -> [Field -> AnyEntry]]
      /\ said \in [Printer -> [Provider -> [Field -> Said]]]
  BY DEF IInv, TypeOK, Time, Said, AnyEntry
<1>4. PICK r : r = accept(record[p], Observation("cloud-mqtt", clock, parseReport(raw)))
  OBVIOUS
<1>5. /\ r \in [Field -> AnyEntry]
      /\ \A f \in Field :
           IF f \in fields /\ admits(record[p][f], "cloud-mqtt", clock)
           THEN r[f].from = "cloud-mqtt" /\ r[f].at = clock
           ELSE r[f] = record[p][f]
  <2>1. PICK old, at, parsed : old = record[p] /\ at = clock /\ parsed = parseReport(raw)
    OBVIOUS
  <2>2. old \in [Field -> AnyEntry] /\ at \in Time
    BY <1>3, <2>1
  <2>3. r = accept(old, Observation("cloud-mqtt", at, parsed))
    BY <1>4, <2>1
  <2>5. DOMAIN parsed = fields /\ \A f \in DOMAIN parsed : parsed[f] \in Value
    BY <2>1, Parsed DEF fields
  <2>4. /\ r \in [Field -> AnyEntry]
        /\ \A f \in Field :
             IF f \in fields /\ admits(old[f], "cloud-mqtt", at)
             THEN r[f].from = "cloud-mqtt" /\ r[f].at = at
             ELSE r[f] = old[f]
    BY <1>2, <2>2, <2>3, <2>5, Accepted
  <2> QED BY <2>1, <2>4
<1>6. record' = [record EXCEPT ![p] = r]
  BY <1>1, <1>4
<1>7. PICK h : h = [f \in Field |-> IF f \in fields THEN clock ELSE said[p]["cloud-mqtt"][f]]
  OBVIOUS
<1>8. said' = [said EXCEPT ![p]["cloud-mqtt"] = h]
  BY <1>1, <1>7 DEF fields
<1>9. h \in [Field -> Said]
  BY <1>2, <1>3, <1>7 DEF Said
<1>10. /\ record' \in [Printer -> [Field -> AnyEntry]]
       /\ said' \in [Printer -> [Provider -> [Field -> Said]]]
  BY <1>3, <1>5, <1>6, <1>8, <1>9
<1>11. TypeOK'
  BY <1>1, <1>3, <1>10 DEF TypeOK, Time, Said, AnyEntry
<1>12. \A q \in Printer, s \in Provider, f \in Field :
         said'[q][s][f] = IF q = p /\ s = "cloud-mqtt" THEN h[f] ELSE said[q][s][f]
  BY <1>2, <1>3, <1>8
<1>13. NotAhead'
  <2>1. ASSUME NEW f \in Field PROVE h[f] <= clock
    <3>1. said[p]["cloud-mqtt"][f] <= clock
      BY <1>2 DEF IInv, NotAhead
    <3>2. clock <= clock
      BY <1>3, Times
    <3>3. h[f] = clock \/ h[f] = said[p]["cloud-mqtt"][f]
      BY <1>7
    <3> QED BY <3>1, <3>2, <3>3
  <2>2. \A q \in Printer, s \in Provider, f \in Field : said'[q][s][f] <= clock
    BY <1>12, <2>1 DEF IInv, NotAhead
  <2>3. \A q \in Printer, f \in Field : said'[q]["cloud-http"][f] = said[q]["cloud-http"][f]
    BY <1>12 DEF Provider
  <2> QED BY <1>1, <2>2, <2>3 DEF IInv, NotAhead
<1>14. LastWordKept'
  <2> SUFFICES ASSUME NEW q \in Printer, NEW f \in Field
               PROVE Follows(record'[q][f], said'[q]["cloud-mqtt"][f],
                             said'[q]["cloud-http"][f])
    BY DEF LastWordKept, Follows
  <2>1. Follows(record[q][f], said[q]["cloud-mqtt"][f], said[q]["cloud-http"][f])
    BY DEF IInv, LastWordKept, Follows
  <2>2. said'[q]["cloud-http"][f] = said[q]["cloud-http"][f]
    BY <1>12 DEF Provider
  <2>3. CASE q # p
    <3>1. record'[q] = record[q] /\ said'[q]["cloud-mqtt"][f] = said[q]["cloud-mqtt"][f]
      BY <2>3, <1>3, <1>6, <1>12 DEF Provider
    <3> QED BY <2>1, <2>2, <3>1
  <2>4. CASE q = p /\ f \notin fields
    <3>1. record'[q][f] = record[q][f]
      BY <2>4, <1>3, <1>5, <1>6
    <3>2. said'[q]["cloud-mqtt"][f] = said[q]["cloud-mqtt"][f]
      BY <2>4, <1>7, <1>12 DEF Provider
    <3> QED BY <2>1, <2>2, <3>1, <3>2
  <2>5. CASE q = p /\ f \in fields
    <3>1. said'[q]["cloud-mqtt"][f] = clock
      BY <2>5, <1>7, <1>12 DEF Provider
    <3>2. /\ record[q][f] \in AnyEntry /\ said[q]["cloud-mqtt"][f] \in Said
          /\ said[q]["cloud-http"][f] \in Said
      BY <1>3 DEF Provider
    <3>3. said[q]["cloud-mqtt"][f] <= clock /\ said[q]["cloud-http"][f] <= clock
      BY DEF IInv, NotAhead, Provider
    <3>4. /\ admits(record[q][f], "cloud-mqtt", clock)
          /\ LastWord(clock, said[q]["cloud-http"][f]) = <<"cloud-mqtt", clock>>
      BY <1>3, <2>1, <3>2, <3>3, LiveTakes
    <3>5. record'[q][f].from = "cloud-mqtt" /\ record'[q][f].at = clock
      BY <2>5, <1>3, <1>5, <1>6, <3>4
    <3> QED BY <2>2, <3>1, <3>4, <3>5 DEF Follows
  <2> QED BY <2>3, <2>4, <2>5
<1> QED BY <1>11, <1>13, <1>14 DEF IInv

LEMMA PollEndsKeeps ==
  ASSUME IInv, PollEnds
  PROVE  IInv'
<1>1. PICK bind \in Listing(Binds), print \in Listing(Prints) :
        /\ record' = [p \in Printer |-> Polled(p, bind[p], print[p])]
        /\ said' = [p \in Printer |-> [said[p] EXCEPT !["cloud-http"] =
             [f \in Field |-> IF f \in DOMAIN bind[p] \cup DOMAIN print[p]
                              THEN polling ELSE @[f]]]]
  BY DEF PollEnds
<1> DEFINE answer(p) == DOMAIN bind[p] \cup DOMAIN print[p]
<1> HIDE DEF answer
<1>2. polling # Never /\ polling' = Never /\ clock' = clock
  BY DEF PollEnds
<1>3. "cloud-http" \in Provider
  BY DEF Provider
<1>4. /\ clock \in Time /\ polling \in Time
      /\ record \in [Printer -> [Field -> AnyEntry]]
      /\ said \in [Printer -> [Provider -> [Field -> Said]]]
  BY <1>2 DEF IInv, TypeOK, Time, Said, AnyEntry
<1>5. \A p \in Printer :
        /\ record'[p] \in [Field -> AnyEntry]
        /\ \A f \in Field :
             IF f \in answer(p) /\ admits(record[p][f], "cloud-http", polling)
             THEN record'[p][f].from = "cloud-http" /\ record'[p][f].at = polling
             ELSE record'[p][f] = record[p][f]
  <2> SUFFICES ASSUME NEW p \in Printer
               PROVE /\ record'[p] \in [Field -> AnyEntry]
                     /\ \A f \in Field :
                          IF f \in answer(p) /\ admits(record[p][f], "cloud-http", polling)
                          THEN record'[p][f].from = "cloud-http"
                               /\ record'[p][f].at = polling
                          ELSE record'[p][f] = record[p][f]
    OBVIOUS
  <2>1. record'[p] = Polled(p, bind[p], print[p])
    BY <1>1
  <2>2. PICK old, new, at, one, two :
          /\ old = record[p] /\ new = record'[p] /\ at = polling
          /\ one = parseBindReport(bind[p]) /\ two = parseCurrentPrint(print[p])
    OBVIOUS
  <2>3. old \in [Field -> AnyEntry] /\ at \in Time
    BY <1>4, <2>2
  <2>4. new = accept(accept(old, Observation("cloud-http", at, one)),
                     Observation("cloud-http", at, two))
    BY <2>1, <2>2 DEF Polled
  <2>6. /\ \A f \in DOMAIN one : one[f] \in Value
        /\ \A f \in DOMAIN two : two[f] \in Value
        /\ answer(p) = DOMAIN one \cup DOMAIN two
    BY <2>2, Parsed DEF answer
  <2>5. /\ new \in [Field -> AnyEntry]
        /\ \A f \in Field :
             IF f \in answer(p) /\ admits(old[f], "cloud-http", at)
             THEN new[f].from = "cloud-http" /\ new[f].at = at
             ELSE new[f] = old[f]
    BY <1>3, <2>3, <2>4, <2>6, AcceptedTwice
  <2> QED BY <2>2, <2>5
<1>6. \A p \in Printer, s \in Provider, f \in Field :
        said'[p][s][f] = IF s = "cloud-http" /\ f \in answer(p) THEN polling
                         ELSE said[p][s][f]
  BY <1>1, <1>3, <1>4 DEF answer
<1>7. said' \in [Printer -> [Provider -> [Field -> Said]]]
  <2> SUFFICES ASSUME NEW p \in Printer PROVE said'[p] \in [Provider -> [Field -> Said]]
    BY <1>1
  <2> DEFINE h == [f \in Field |-> IF f \in answer(p) THEN polling
                                   ELSE said[p]["cloud-http"][f]]
  <2>1. h \in [Field -> Said]
    BY <1>3, <1>4 DEF Said
  <2>2. said'[p] = [said[p] EXCEPT !["cloud-http"] = h]
    BY <1>1 DEF answer
  <2> HIDE DEF h
  <2>3. said[p] \in [Provider -> [Field -> Said]]
    BY <1>4
  <2> QED BY <2>1, <2>2, <2>3
<1>8. TypeOK'
  <2>1. record' \in [Printer -> [Field -> AnyEntry]]
    BY <1>1, <1>5
  <2> QED BY <1>2, <1>4, <1>7, <2>1 DEF TypeOK, Time, Said, AnyEntry
<1>9. NotAhead'
  <2>1. polling <= clock
    BY DEF IInv, NotAhead
  <2>2. \A p \in Printer, s \in Provider, f \in Field : said'[p][s][f] <= clock
    BY <1>6, <2>1 DEF IInv, NotAhead
  <2>3. polling' <= clock'
    BY <1>2, <1>4, Times DEF Never
  <2> QED BY <1>2, <2>2, <2>3 DEF NotAhead
<1>10. LastWordKept'
  <2> SUFFICES ASSUME NEW p \in Printer, NEW f \in Field
               PROVE Follows(record'[p][f], said'[p]["cloud-mqtt"][f],
                             said'[p]["cloud-http"][f])
    BY DEF LastWordKept, Follows
  <2>1. Follows(record[p][f], said[p]["cloud-mqtt"][f], said[p]["cloud-http"][f])
    BY DEF IInv, LastWordKept, Follows
  <2>2. said'[p]["cloud-mqtt"][f] = said[p]["cloud-mqtt"][f]
    BY <1>6 DEF Provider
  <2>3. CASE f \notin answer(p)
    <3>1. record'[p][f] = record[p][f]
      BY <2>3, <1>5
    <3>2. said'[p]["cloud-http"][f] = said[p]["cloud-http"][f]
      BY <2>3, <1>6 DEF Provider
    <3> QED BY <2>1, <2>2, <3>1, <3>2
  <2>4. CASE f \in answer(p)
    <3>1. said'[p]["cloud-http"][f] = polling
      BY <2>4, <1>6 DEF Provider
    <3>2. /\ record[p][f] \in AnyEntry /\ said[p]["cloud-mqtt"][f] \in Said
          /\ said[p]["cloud-http"][f] \in Said
      BY <1>4 DEF Provider
    <3>3. said[p]["cloud-http"][f] <= polling
      BY <1>2 DEF IInv, NotAhead
    <3>4. LET live == said[p]["cloud-mqtt"][f]
              e == record[p][f] IN
          /\ admits(e, "cloud-http", polling)
               => LastWord(live, polling) = <<"cloud-http", polling>>
          /\ ~ admits(e, "cloud-http", polling)
               => LastWord(live, polling) = <<e.from, e.at>>
      BY <1>4, <2>1, <3>2, <3>3, CoarseTakes
    <3>5. CASE admits(record[p][f], "cloud-http", polling)
      <4>1. record'[p][f].from = "cloud-http" /\ record'[p][f].at = polling
        BY <1>5, <2>4, <3>5
      <4> QED BY <2>2, <3>1, <3>4, <3>5, <4>1 DEF Follows
    <3>6. CASE ~ admits(record[p][f], "cloud-http", polling)
      <4>1. record'[p][f] = record[p][f]
        BY <1>5, <3>6
      <4> QED BY <2>2, <3>1, <3>4, <3>6, <4>1 DEF Follows
    <3> QED BY <3>5, <3>6
  <2> QED BY <2>3, <2>4
<1> QED BY <1>8, <1>9, <1>10 DEF IInv

LEMMA Step == IInv /\ [Next]_vars => IInv'
<1> SUFFICES ASSUME IInv, [Next]_vars PROVE IInv'
  OBVIOUS
<1>1. CASE \E p \in Reporting : Report(p)
  BY <1>1, ReportKeeps, DisplayAssumption
<1>2. CASE PollStarts
  <2>1. clock \in 0 .. MaxTime /\ polling' = clock /\ UNCHANGED <<clock, record, said>>
    BY <1>2 DEF PollStarts, IInv, TypeOK
  <2>2. TypeOK'
    BY <2>1 DEF IInv, TypeOK
  <2>3. NotAhead'
    BY <2>1 DEF IInv, NotAhead, Provider
  <2>4. LastWordKept'
    BY <2>1 DEF IInv, LastWordKept
  <2> QED BY <2>2, <2>3, <2>4 DEF IInv
<1>3. CASE PollEnds
  BY <1>3, PollEndsKeeps
<1>4. CASE Tick
  <2>1. clock \in Nat /\ clock < MaxTime /\ clock' = clock + 1
        /\ UNCHANGED <<record, polling, said>>
    BY <1>4, Times DEF Tick, IInv, TypeOK, Time
  <2>2. TypeOK'
    <3>1. clock' \in 0 .. MaxTime
      BY <2>1, Times
    <3> QED BY <2>1, <3>1 DEF IInv, TypeOK
  <2>3. NotAhead'
    <3>1. polling \in Int
      BY Times DEF IInv, TypeOK, Never, Time, Said
    <3>2. \A p \in Printer, s \in Provider, f \in Field :
            said[p][s][f] \in Int /\ said[p][s][f] <= clock
      BY Times DEF IInv, TypeOK, NotAhead, Said, Time
    <3>3. \A p \in Printer, s \in Provider, f \in Field : said'[p][s][f] <= clock'
      BY <2>1, <3>2
    <3>4. polling' <= clock'
      BY <2>1, <3>1 DEF IInv, NotAhead
    <3> QED BY <2>1, <3>3, <3>4 DEF IInv, NotAhead
  <2>4. LastWordKept'
    BY <2>1 DEF IInv, LastWordKept
  <2> QED BY <2>2, <2>3, <2>4 DEF IInv
<1>5. CASE UNCHANGED vars
  BY <1>5 DEF vars, IInv, TypeOK, NotAhead, LastWordKept
<1> QED BY <1>1, <1>2, <1>3, <1>4, <1>5 DEF Next

-----------------------------------------------------------------------------

\* The types of the display's state.
THEOREM TypeCorrect == Spec => []TypeOK
BY InitIInv, Step, PTL DEF Spec, IInv

\* Reports and slow polls in any order leave each field with the last word of the
\* source that has authority over it.
THEOREM MergeIsReference == Spec => []LastWordKept
<1>1. IInv => LastWordKept
  BY DEF IInv
<1> QED BY InitIInv, Step, <1>1, PTL DEF Spec
-----------------------------------------------------------------------------
(* A finished job. *)

Over == {"finished", "failed"}

\* The coarse source never makes a printer finished or failed.
CoarseIsLasting ==
  \A p \in Printer : record[p]["state"].from # "cloud-mqtt" => record[p]["state"].value \notin Over

LEMMA TaskIsNotOver == \A token : fromTaskStatus(token) \notin Over
BY DEF fromTaskStatus, toDisplayState, LIVE_STATE_BY_TOKEN, TERMINAL_TASK_TOKENS, Over

\* The state after an observation is the old one or the observed one.
LEMMA StateAccepted ==
  ASSUME NEW r, NEW from, NEW at, NEW fields, NEW f \in Field,
         NEW r2, r2 = accept(r, Observation(from, at, fields))
  PROVE  \/ r2[f] = r[f]
         \/ f \in DOMAIN fields /\ r2[f].from = from /\ r2[f].value = fields[f]
BY DEF accept, Observation

\* The state that a step gives a printer is read from a live token or from that of
\* a task.
LEMMA StateRead ==
  ASSUME IInv, [Next]_vars, NEW q \in Printer
  PROVE  \/ record'[q]["state"] = record[q]["state"]
         \/ /\ record'[q]["state"].from = "cloud-mqtt"
            /\ \E token : record'[q]["state"].value = toDisplayState(token)
         \/ \E token : record'[q]["state"].value = fromTaskStatus(token)
<1>1. "state" \in Field
  BY DisplayAssumption
<1>2. DOMAIN record = Printer
  BY DEF IInv, TypeOK
<1>3. CASE \E p \in Reporting : Report(p)
  <2>1. PICK p \in Printer, raw \in Reports :
          record' = [record EXCEPT ![p] =
            accept(@, Observation("cloud-mqtt", clock, parseReport(raw)))]
    BY <1>3, DisplayAssumption DEF Report
  <2>2. CASE q # p
    BY <1>2, <2>1, <2>2
  <2>3. CASE q = p
    <3>1. PICK old, new, fields, at : /\ old = record[q] /\ new = record'[q]
                                      /\ fields = parseReport(raw) /\ at = clock
      OBVIOUS
    <3>2. new = accept(old, Observation("cloud-mqtt", at, fields))
      BY <1>2, <2>1, <2>3, <3>1
    <3>3. \/ new["state"] = old["state"]
          \/ /\ "state" \in DOMAIN fields /\ new["state"].from = "cloud-mqtt"
             /\ new["state"].value = fields["state"]
      BY <1>1, <3>2, StateAccepted
    <3>4. "state" \in DOMAIN fields => fields["state"] = toDisplayState(raw["state"])
      BY <3>1 DEF parseReport
    <3> QED BY <3>1, <3>3, <3>4
  <2> QED BY <2>2, <2>3
<1>4. CASE PollEnds
  <2>1. PICK bind, print : record' = [p \in Printer |-> Polled(p, bind[p], print[p])]
    BY <1>4 DEF PollEnds
  <2>2. PICK old, mid, new, one, two, at :
          /\ old = record[q] /\ new = record'[q] /\ at = polling
          /\ one = parseBindReport(bind[q]) /\ two = parseCurrentPrint(print[q])
          /\ mid = accept(old, Observation("cloud-http", at, one))
    OBVIOUS
  <2>3. new = accept(mid, Observation("cloud-http", at, two))
    BY <2>1, <2>2 DEF Polled
  <2>4. "state" \in DOMAIN one => \E token : one["state"] = fromTaskStatus(token)
    BY <2>2 DEF parseBindReport
  <2>5. "state" \in DOMAIN two => \E token : two["state"] = fromTaskStatus(token)
    BY <2>2 DEF parseCurrentPrint
  <2>6. \/ mid["state"] = old["state"]
        \/ "state" \in DOMAIN one /\ mid["state"].value = one["state"]
    BY <1>1, <2>2, StateAccepted
  <2>7. \/ new["state"] = mid["state"]
        \/ "state" \in DOMAIN two /\ new["state"].value = two["state"]
    BY <1>1, <2>3, StateAccepted
  <2>8. new["state"] = old["state"] \/ \E token : new["state"].value = fromTaskStatus(token)
    BY <2>4, <2>5, <2>6, <2>7
  <2> QED BY <2>2, <2>8
<1>5. CASE PollStarts \/ Tick \/ UNCHANGED vars
  BY <1>5 DEF PollStarts, Tick, vars
<1> QED BY <1>3, <1>4, <1>5 DEF Next

LEMMA StepLasting ==
  ASSUME IInv, CoarseIsLasting, [Next]_vars
  PROVE  CoarseIsLasting'
<1> SUFFICES ASSUME NEW q \in Printer, record'[q]["state"].from # "cloud-mqtt"
             PROVE  record'[q]["state"].value \notin Over
  BY DEF CoarseIsLasting
<1>1. CASE record'[q]["state"] = record[q]["state"]
  BY <1>1 DEF CoarseIsLasting
<1>2. CASE \E token : record'[q]["state"].value = fromTaskStatus(token)
  BY <1>2, TaskIsNotOver
<1> QED BY <1>1, <1>2, StateRead

\* A printer is shown as finished or failed on a live word for it alone.
THEOREM FinishedOnLiveWord == Spec => []FinishedIsLive
<1>1. Init => CoarseIsLasting
  BY DisplayAssumption DEF Init, CoarseIsLasting, unknownPrinterState, Unheard, Over
<1>2. IInv /\ CoarseIsLasting => FinishedIsLive
  <2> SUFFICES ASSUME IInv, CoarseIsLasting, NEW p \in Printer,
                      record[p]["state"].value \in {"finished", "failed"}
               PROVE  LET live == said[p]["cloud-mqtt"]["state"]
                          coarse == said[p]["cloud-http"]["state"] IN
                      live # Never /\ (coarse # Never => coarse - live <= AuthorityWindow)
    BY DEF FinishedIsLive
  <2>1. record[p]["state"].from = "cloud-mqtt"
    BY DEF CoarseIsLasting, Over
  <2>2. <<record[p]["state"].from, record[p]["state"].at>> =
          LastWord(said[p]["cloud-mqtt"]["state"], said[p]["cloud-http"]["state"])
    BY DisplayAssumption DEF IInv, LastWordKept
  <2> QED BY <2>1, <2>2 DEF LastWord
<1> QED BY InitIInv, Step, StepLasting, <1>1, <1>2, PTL DEF Spec
-----------------------------------------------------------------------------
(* How old what is shown is. *)

\* Nothing that a poll said is later than what it said of the printer as such, and
\* no live word ever stands in the way of that.
OnlineHeard ==
  \A p \in Printer :
    /\ said[p]["cloud-mqtt"]["online"] = Never
    /\ \A f \in Field : said[p]["cloud-http"][f] <= said[p]["cloud-http"]["online"]

LEMMA StepHeard ==
  ASSUME OnlineIsCoarse, IInv, OnlineHeard, [Next]_vars
  PROVE  OnlineHeard'
<1>1. "online" \in Field /\ Provider = {"cloud-mqtt", "cloud-http"}
  BY DisplayAssumption DEF Provider
<1>2. /\ said \in [Printer -> [Provider -> [Field -> Said]]]
      /\ clock \in Time /\ polling \in Said
  BY DEF IInv, TypeOK, Said, Time
<1>3. ASSUME UNCHANGED said PROVE OnlineHeard'
  BY <1>3 DEF OnlineHeard
<1>4. ASSUME NEW p \in Printer, Report(p) PROVE OnlineHeard'
  <2>1. PICK raw \in Reports :
          said' = [said EXCEPT ![p]["cloud-mqtt"] =
            [f \in Field |-> IF f \in DOMAIN raw THEN clock ELSE @[f]]]
    BY <1>4 DEF Report
  <2>2. PICK h : h = [f \in Field |-> IF f \in DOMAIN raw THEN clock
                                      ELSE said[p]["cloud-mqtt"][f]]
    OBVIOUS
  <2>3. said' = [said EXCEPT ![p]["cloud-mqtt"] = h]
    BY <2>1, <2>2
  <2>4. h["online"] = said[p]["cloud-mqtt"]["online"]
    BY <1>1, <2>2 DEF OnlineIsCoarse
  <2>5. \A q \in Printer, s \in Provider :
          said'[q][s] = IF q = p /\ s = "cloud-mqtt" THEN h ELSE said[q][s]
    BY <1>1, <1>2, <2>3
  <2>6. \A q \in Printer :
          /\ said'[q]["cloud-http"] = said[q]["cloud-http"]
          /\ said'[q]["cloud-mqtt"]["online"] = said[q]["cloud-mqtt"]["online"]
    BY <1>1, <2>4, <2>5
  <2> QED BY <2>6 DEF OnlineHeard
<1>5. CASE PollEnds
  <2>1. PICK bind \in Listing(Binds), print \in Listing(Prints) :
          said' = [p \in Printer |-> [said[p] EXCEPT !["cloud-http"] =
            [f \in Field |-> IF f \in DOMAIN bind[p] \cup DOMAIN print[p]
                             THEN polling ELSE @[f]]]]
    BY <1>5 DEF PollEnds
  <2> SUFFICES ASSUME NEW p \in Printer
               PROVE  /\ said'[p]["cloud-mqtt"]["online"] = Never
                      /\ \A f \in Field :
                           said'[p]["cloud-http"][f] <= said'[p]["cloud-http"]["online"]
    BY DEF OnlineHeard
  <2>2. PICK old, h, answer :
          /\ old = said[p] /\ answer = DOMAIN bind[p] \cup DOMAIN print[p]
          /\ h = [f \in Field |-> IF f \in answer THEN polling ELSE old["cloud-http"][f]]
    OBVIOUS
  <2>3. said'[p] = [old EXCEPT !["cloud-http"] = h]
    BY <2>1, <2>2
  <2>4. old \in [Provider -> [Field -> Said]]
    BY <1>2, <2>2
  <2>5. said'[p]["cloud-http"] = h /\ said'[p]["cloud-mqtt"] = old["cloud-mqtt"]
    BY <1>1, <2>3, <2>4
  <2>6. /\ old["cloud-mqtt"]["online"] = Never
        /\ \A f \in Field : old["cloud-http"][f] <= old["cloud-http"]["online"]
    BY <2>2 DEF OnlineHeard
  <2>7. \A f \in Field : old["cloud-http"][f] <= polling
    BY <1>5, <2>2 DEF PollEnds, IInv, NotAhead
  <2>8. answer # {} => "online" \in answer
    <3>1. bind[p] \in Binds \cup {Silence} /\ print[p] \in Prints \cup {Silence}
      BY DEF Listing
    <3>2. DOMAIN Silence = {}
      BY DEF Silence
    <3> QED BY <2>2, <3>1, <3>2 DEF OnlineIsCoarse
  <2>9. polling <= polling
    BY <1>2, Times
  <2>10. CASE answer = {}
    <3>1. \A f \in Field : h[f] = old["cloud-http"][f]
      BY <2>2, <2>10
    <3> QED BY <1>1, <2>5, <2>6, <3>1
  <2>11. CASE answer # {}
    <3>1. h["online"] = polling
      BY <1>1, <2>2, <2>8, <2>11
    <3>2. \A f \in Field : h[f] <= polling
      BY <2>2, <2>7, <2>9
    <3> QED BY <2>5, <2>6, <3>1, <3>2
  <2> QED BY <2>10, <2>11
<1>6. CASE PollStarts \/ Tick \/ UNCHANGED vars
  BY <1>3, <1>6 DEF PollStarts, Tick, vars
<1> QED BY <1>4, <1>5, <1>6, DisplayAssumption DEF Next

\* Where the entries of the cloud keep up saying whether a printer is online, what
\* it is shown as is stale exactly when neither source has spoken of it lately,
\* however much of what they said was turned down.
THEOREM FreshnessIsHeard ==
  ASSUME OnlineIsCoarse
  PROVE  Spec => []FreshnessIsTrue
<1>1. Init => OnlineHeard
  <2>1. "online" \in Field /\ {"cloud-mqtt", "cloud-http"} \subseteq Provider /\ Never <= Never
    BY DisplayAssumption DEF Provider, Never
  <2> QED BY <2>1 DEF Init, OnlineHeard
<1>2. IInv /\ OnlineHeard => FreshnessIsTrue
  <2> SUFFICES ASSUME IInv, OnlineHeard, NEW p \in Printer
               PROVE  staleAt(record[p], clock) <=>
                        \A s \in Provider, f \in Field :
                          said[p][s][f] # Never => clock - said[p][s][f] > StaleAfter
    BY DEF FreshnessIsTrue
  <2>1. "online" \in Field /\ Provider = {"cloud-mqtt", "cloud-http"}
    BY DisplayAssumption DEF Provider
  <2>2. clock \in Int /\ StaleAfter \in Int /\ AuthorityWindow \in Nat
    BY Times, WindowsAssumption DEF IInv, TypeOK, Time
  <2>3. \A s \in Provider, f \in Field : said[p][s][f] \in Int
    BY Times DEF IInv, TypeOK, Said, Time
  <2>4. \A f \in Field : <<record[p][f].from, record[p][f].at>> =
                           LastWord(said[p]["cloud-mqtt"][f], said[p]["cloud-http"][f])
    BY DEF IInv, LastWordKept
  <2>5. ASSUME staleAt(record[p], clock), NEW f \in Field, said[p]["cloud-http"][f] # Never
        PROVE  clock - said[p]["cloud-http"][f] > StaleAfter
    <3> DEFINE last == said[p]["cloud-http"]["online"]
    <3>1. last \in Int /\ said[p]["cloud-http"][f] <= last
      BY <2>1, <2>3 DEF OnlineHeard
    <3>2. last # Never
      <4>1. said[p]["cloud-http"][f] >= 0
        BY <2>1, <2>5 DEF IInv, TypeOK, Never
      <4>2. said[p]["cloud-http"][f] \in Int
        BY <2>1, <2>3
      <4> QED BY <3>1, <4>1, <4>2 DEF Never
    <3>3. said[p]["cloud-mqtt"]["online"] = Never
      BY DEF OnlineHeard
    <3> HIDE DEF last
    <3>4. record[p]["online"].from = "cloud-http" /\ record[p]["online"].at = last
      BY <2>1, <2>4, <3>2, <3>3 DEF LastWord, last
    <3>5. clock - last > StaleAfter
      BY <2>1, <2>5, <3>4 DEF staleAt
    <3> QED BY <2>1, <2>2, <2>3, <3>1, <3>5
  <2>6. ASSUME staleAt(record[p], clock), NEW f \in Field, said[p]["cloud-mqtt"][f] # Never
        PROVE  clock - said[p]["cloud-mqtt"][f] > StaleAfter
    <3> DEFINE live == said[p]["cloud-mqtt"][f]
               coarse == said[p]["cloud-http"][f]
    <3>1. live \in Int /\ coarse \in Int
      BY <2>1, <2>3
    <3>2. live # Never /\ <<record[p][f].from, record[p][f].at>> = LastWord(live, coarse)
      BY <2>4, <2>6
    <3> HIDE DEF live, coarse
    <3>3. CASE coarse # Never => coarse - live <= AuthorityWindow
      <4>1. record[p][f].from = "cloud-mqtt" /\ record[p][f].at = live
        BY <3>2, <3>3 DEF LastWord
      <4>2. clock - live > StaleAfter
        BY <2>6, <4>1 DEF staleAt
      <4> QED BY <4>2 DEF live
    <3>4. CASE coarse # Never /\ ~ (coarse - live <= AuthorityWindow)
      <4>1. record[p][f].from = "cloud-http" /\ record[p][f].at = coarse
        BY <3>2, <3>4 DEF LastWord
      <4>2. clock - coarse > StaleAfter
        BY <2>6, <4>1 DEF staleAt
      <4>3. clock - live > StaleAfter
        BY <2>2, <3>1, <3>4, <4>2
      <4> QED BY <4>3 DEF live
    <3> QED BY <3>3, <3>4
  <2>7. ASSUME \A s \in Provider, f \in Field :
                 said[p][s][f] # Never => clock - said[p][s][f] > StaleAfter
        PROVE  staleAt(record[p], clock)
    <3> SUFFICES ASSUME NEW f \in Field, record[p][f].from # "none"
                 PROVE  clock - record[p][f].at > StaleAfter
      BY DEF staleAt
    <3>1. PICK s \in Provider : record[p][f].at = said[p][s][f] /\ said[p][s][f] # Never
      BY <2>1, <2>4 DEF LastWord
    <3> QED BY <2>7, <3>1
  <2> QED BY <2>1, <2>5, <2>6, <2>7
<1> QED BY InitIInv, Step, StepHeard, <1>1, <1>2, PTL DEF Spec
-----------------------------------------------------------------------------
(* Enumerations and extremes of finite sets. *)

\* An interval from 1 has its length.
LEMMA Intervals == \A n \in Nat : IsFiniteSet(1 .. n) /\ Cardinality(1 .. n) = n
<1> SUFFICES ASSUME NEW n \in Nat PROVE IsFiniteSet(1 .. n) /\ Cardinality(1 .. n) = n
  OBVIOUS
<1>1. 1 \in Int /\ n \in Int
  OBVIOUS
<1>2. IsFiniteSet(1 .. n) /\ Cardinality(1 .. n) = IF 1 > n THEN 0 ELSE n - 1 + 1
  BY <1>1, FS_Interval, Zenon
<1> QED BY <1>2

\* A finite set in a strict total order R has an enumeration in that order.
LEMMA Enumeration ==
  ASSUME NEW S, IsFiniteSet(S), NEW R,
         \A x \in S : <<x, x>> \notin R,
         \A x, y, z \in S : <<x, y>> \in R /\ <<y, z>> \in R => <<x, z>> \in R,
         \A x, y \in S : x # y => <<x, y>> \in R \/ <<y, x>> \in R
  PROVE  \E s \in [1 .. Cardinality(S) -> S] :
           \A i, j \in 1 .. Cardinality(S) : i < j => <<s[i], s[j]>> \in R
<1> DEFINE n == Cardinality(S)
           before(x) == {y \in S : <<y, x>> \in R}
           rank == [x \in S |-> Cardinality(before(x)) + 1]
<1>1. n \in Nat
  BY FS_CardinalityType
<1>2. \A x \in S : IsFiniteSet(before(x)) /\ Cardinality(before(x)) \in Nat
  BY FS_Subset, FS_CardinalityType
<1>3. ASSUME NEW x \in S, NEW y \in S, <<x, y>> \in R PROVE rank[x] < rank[y]
  <2>1. before(x) \subseteq before(y)
    BY <1>3
  <2>2. before(x) # before(y)
    BY <1>3
  <2>3. /\ Cardinality(before(x)) <= Cardinality(before(y))
        /\ Cardinality(before(y)) # Cardinality(before(x))
    BY <1>2, <2>1, <2>2, FS_Subset
  <2> HIDE DEF before
  <2> QED BY <1>2, <2>3
<1>4. ASSUME NEW x \in S PROVE rank[x] \in 1 .. n
  <2>1. before(x) \subseteq S /\ before(x) # S
    OBVIOUS
  <2>2. Cardinality(before(x)) <= n /\ n # Cardinality(before(x))
    BY <2>1, FS_Subset
  <2> HIDE DEF before, n
  <2> QED BY <1>1, <1>2, <2>2
<1> HIDE DEF before
<1>5. \A x \in S : rank[x] \in Int
  BY <1>2
<1>6. rank \in [S -> 1 .. n]
  BY <1>4
<1> HIDE DEF rank
<1>7. \A x, y \in S : rank[x] = rank[y] => x = y
  <2> SUFFICES ASSUME NEW x \in S, NEW y \in S, x # y PROVE rank[x] # rank[y]
    OBVIOUS
  <2>1. rank[x] < rank[y] \/ rank[y] < rank[x]
    BY <1>3
  <2>2. rank[x] \in Int /\ rank[y] \in Int
    BY <1>5
  <2> QED BY <2>1, <2>2
<1>8. IsFiniteSet(1 .. n) /\ Cardinality(1 .. n) = n
  BY <1>1, Intervals
<1>9. \A i \in 1 .. n : \E x \in S : rank[x] = i
  <2>1. rank \in Injection(S, 1 .. n)
    BY <1>6, <1>7 DEF Injection, IsInjective
  <2>2. rank \in Surjection(S, 1 .. n)
    BY <1>8, <2>1, FS_Injection
  <2> QED BY <2>2 DEF Surjection
<1> DEFINE s == [i \in 1 .. n |-> CHOOSE x \in S : rank[x] = i]
<1>10. \A i \in 1 .. n : s[i] \in S /\ rank[s[i]] = i
  BY <1>9
<1>11. s \in [1 .. n -> S]
  BY <1>10
<1>12. ASSUME NEW i \in 1 .. n, NEW j \in 1 .. n, i < j PROVE <<s[i], s[j]>> \in R
  <2> HIDE DEF s
  <2>1. s[i] \in S /\ s[j] \in S /\ rank[s[i]] = i /\ rank[s[j]] = j
    BY <1>10
  <2>2. s[i] # s[j]
    BY <1>1, <1>12, <2>1
  <2>3. ~ (j < i)
    BY <1>1, <1>12
  <2>4. <<s[j], s[i]>> \notin R
    BY <1>3, <2>1, <2>3
  <2> QED BY <2>1, <2>2, <2>4
<1> QED BY <1>11, <1>12

\* The least and the greatest of some integers.
LEMMA Extremes ==
  ASSUME NEW S \in SUBSET Int, IsFiniteSet(S), S # {}
  PROVE  /\ Min(S) \in S /\ \A x \in S : Min(S) <= x
         /\ Max(S) \in S /\ \A x \in S : Max(S) >= x
<1> DEFINE n == Cardinality(S)
           R == {w \in S \X S : w[1] < w[2]}
<1>1. n \in Nat /\ n # 0
  BY FS_CardinalityType, FS_EmptySet
<1>2. \A x, y \in S : <<x, y>> \in R <=> x < y
  OBVIOUS
<1> HIDE DEF R
<1>3. PICK s \in [1 .. n -> S] : \A i, j \in 1 .. n : i < j => <<s[i], s[j]>> \in R
  <2>1. /\ \A x \in S : <<x, x>> \notin R
        /\ \A x, y, z \in S : <<x, y>> \in R /\ <<y, z>> \in R => <<x, z>> \in R
        /\ \A x, y \in S : x # y => <<x, y>> \in R \/ <<y, x>> \in R
    BY <1>2
  <2> QED BY <2>1, Enumeration
<1>4. IsFiniteSet(1 .. n) /\ Cardinality(1 .. n) = n
  BY <1>1, Intervals
<1>5. \A x \in S : \E i \in 1 .. n : s[i] = x
  <2>0. \A i, j \in 1 .. n : i < j => s[i] < s[j]
    BY <1>2, <1>3
  <2>1. \A i, j \in 1 .. n : s[i] = s[j] => i = j
    <3> SUFFICES ASSUME NEW i \in 1 .. n, NEW j \in 1 .. n, s[i] = s[j], i # j PROVE FALSE
      OBVIOUS
    <3>1. s[i] \in Int /\ s[j] \in Int
      OBVIOUS
    <3>2. i < j \/ j < i
      BY <1>1
    <3> QED BY <2>0, <3>1, <3>2
  <2>2. s \in Injection(1 .. n, S)
    BY <2>1 DEF Injection, IsInjective
  <2>3. s \in Surjection(1 .. n, S)
    BY <1>4, <2>2, FS_Injection
  <2> QED BY <2>3 DEF Surjection
<1> HIDE DEF n
<1>6. 1 \in 1 .. n /\ n \in 1 .. n
  BY <1>1
<1>7. \A i \in 1 .. n : s[1] <= s[i] /\ s[i] <= s[n]
  <2> SUFFICES ASSUME NEW i \in 1 .. n PROVE s[1] <= s[i] /\ s[i] <= s[n]
    OBVIOUS
  <2>1. s[1] \in Int /\ s[i] \in Int /\ s[n] \in Int
    BY <1>6
  <2>2. 1 < i \/ 1 = i
    OBVIOUS
  <2>3. i < n \/ i = n
    BY <1>1
  <2>4. 1 < i => s[1] < s[i]
    BY <1>2, <1>3, <1>6
  <2>5. i < n => s[i] < s[n]
    BY <1>2, <1>3, <1>6
  <2> QED BY <2>1, <2>2, <2>3, <2>4, <2>5
<1>8. \E x \in S : \A y \in S : x <= y
  BY <1>5, <1>6, <1>7
<1>9. \E x \in S : \A y \in S : x >= y
  <2>1. \A y \in S : s[n] >= y
    BY <1>5, <1>6, <1>7
  <2> QED BY <1>6, <2>1
<1>10. Min(S) \in S /\ \A x \in S : Min(S) <= x
  BY <1>8 DEF Min
<1>11. Max(S) \in S /\ \A x \in S : Max(S) >= x
  BY <1>9 DEF Max
<1> QED BY <1>10, <1>11

-----------------------------------------------------------------------------
(* The order of the snapshots. *)

\* What the payload builder is given of a printer, and makes of it.
Snap == [key : Printer, state : DisplayState, detail : SUBSET Class]

\* The order of two states is that of their numbers.
LEMMA Priorities ==
  /\ \A s \in DisplayState : STATE_PRIORITY[s] \in Nat
  /\ \A s, t \in DisplayState : STATE_PRIORITY[s] = STATE_PRIORITY[t] => s = t
<1>1. \A s \in DisplayState :
        STATE_PRIORITY[s] =
          (CASE s = "printing" -> 0 [] s = "paused" -> 1 [] s = "preparing" -> 2
             [] s = "finished" -> 3 [] s = "failed" -> 4 [] s = "idle" -> 5
             [] s = "offline" -> 6  [] s = "unknown" -> 7)
  BY DEF STATE_PRIORITY
<1>2. /\ STATE_PRIORITY["printing"] = 0 /\ STATE_PRIORITY["paused"] = 1
      /\ STATE_PRIORITY["preparing"] = 2 /\ STATE_PRIORITY["finished"] = 3
      /\ STATE_PRIORITY["failed"] = 4 /\ STATE_PRIORITY["idle"] = 5
      /\ STATE_PRIORITY["offline"] = 6 /\ STATE_PRIORITY["unknown"] = 7
  BY <1>1 DEF DisplayState
<1> QED BY <1>2 DEF DisplayState

\* Snapshots of different printers are in a strict total order.
LEMMA Order ==
  ASSUME NEW x \in Snap, NEW y \in Snap, NEW z \in Snap
  PROVE  /\ ~ Precedes(x, x)
         /\ Precedes(x, y) /\ Precedes(y, z) => Precedes(x, z)
         /\ x.key # y.key => Precedes(x, y) \/ Precedes(y, x)
         /\ Precedes(x, y) => STATE_PRIORITY[x.state] <= STATE_PRIORITY[y.state]
<1>1. PICK a, b, c, k, l, m, s, t, u :
        /\ a = STATE_PRIORITY[s] /\ b = STATE_PRIORITY[t] /\ c = STATE_PRIORITY[u]
        /\ k = x.key /\ l = y.key /\ m = z.key
        /\ s = x.state /\ t = y.state /\ u = z.state
  OBVIOUS
<1>2. s \in DisplayState /\ t \in DisplayState /\ u \in DisplayState
  BY <1>1 DEF Snap
<1>3. a \in Int /\ b \in Int /\ c \in Int
  BY <1>1, <1>2, Priorities
<1>4. k \in Int /\ l \in Int /\ m \in Int
  BY <1>1, DisplayAssumption DEF Snap
<1>5. (a = b <=> s = t) /\ (b = c <=> t = u) /\ (a = c <=> s = u)
  BY <1>1, <1>2, Priorities
<1>6. /\ Precedes(x, x) <=> a < a \/ (s = s /\ k < k)
      /\ Precedes(x, y) <=> a < b \/ (s = t /\ k < l)
      /\ Precedes(y, z) <=> b < c \/ (t = u /\ l < m)
      /\ Precedes(x, z) <=> a < c \/ (s = u /\ k < m)
      /\ Precedes(y, x) <=> b < a \/ (t = s /\ l < k)
  BY <1>1 DEF Precedes
<1>7. ~ Precedes(x, x)
  BY <1>3, <1>4, <1>6
<1>8. Precedes(x, y) /\ Precedes(y, z) => Precedes(x, z)
  BY <1>3, <1>4, <1>5, <1>6
<1>9. k # l => Precedes(x, y) \/ Precedes(y, x)
  BY <1>3, <1>4, <1>5, <1>6
<1>10. Precedes(x, y) => a <= b
  BY <1>3, <1>4, <1>5, <1>6
<1> QED BY <1>1, <1>7, <1>8, <1>9, <1>10

\* Snapshots of different printers have one order, without repetition.
LEMMA OrderedIs ==
  ASSUME NEW S \in SUBSET Snap, IsFiniteSet(S),
         \A x, y \in S : x.key = y.key => x = y
  PROVE  /\ Ordered(S) \in [1 .. Cardinality(S) -> S]
         /\ \A i, j \in 1 .. Cardinality(S) : i < j => Precedes(Ordered(S)[i], Ordered(S)[j])
         /\ \A i, j \in 1 .. Cardinality(S) : Ordered(S)[i] = Ordered(S)[j] => i = j
         /\ \A x \in S : \E i \in 1 .. Cardinality(S) : Ordered(S)[i] = x
<1> DEFINE n == Cardinality(S)
           R == {w \in S \X S : Precedes(w[1], w[2])}
<1>1. n \in Nat
  BY FS_CardinalityType
<1>2. \A x, y \in S : <<x, y>> \in R <=> Precedes(x, y)
  OBVIOUS
<1>4. \A x \in S : ~ Precedes(x, x)
  BY Order
<1>5. \A x, y, z \in S : Precedes(x, y) /\ Precedes(y, z) => Precedes(x, z)
  BY Order
<1>6. \A x, y \in S : x # y => Precedes(x, y) \/ Precedes(y, x)
  BY Order
<1> HIDE DEF R
<1>7. \E s \in [1 .. n -> S] : \A i, j \in 1 .. n : i < j => <<s[i], s[j]>> \in R
  <2>1. /\ \A x \in S : <<x, x>> \notin R
        /\ \A x, y, z \in S : <<x, y>> \in R /\ <<y, z>> \in R => <<x, z>> \in R
        /\ \A x, y \in S : x # y => <<x, y>> \in R \/ <<y, x>> \in R
    BY <1>2, <1>4, <1>5, <1>6
  <2> QED BY <2>1, Enumeration
<1>8. \E s \in [1 .. n -> S] : \A i, j \in DOMAIN s : i < j => Precedes(s[i], s[j])
  BY <1>2, <1>7
<1>9. /\ Ordered(S) \in [1 .. n -> S]
      /\ \A i, j \in DOMAIN Ordered(S) : i < j => Precedes(Ordered(S)[i], Ordered(S)[j])
  BY <1>8, Zenon DEF Ordered
<1> DEFINE s == Ordered(S)
<1> HIDE DEF s
<1>10. s \in [1 .. n -> S] /\ \A i, j \in 1 .. n : i < j => Precedes(s[i], s[j])
  BY <1>9 DEF s
<1>11. \A i, j \in 1 .. n : s[i] = s[j] => i = j
  <2> SUFFICES ASSUME NEW i \in 1 .. n, NEW j \in 1 .. n, s[i] = s[j], i # j PROVE FALSE
    OBVIOUS
  <2>1. s[i] \in S /\ s[j] \in S
    BY <1>10
  <2>2. i < j \/ j < i
    BY <1>1
  <2>3. Precedes(s[i], s[j]) \/ Precedes(s[j], s[i])
    BY <1>10, <2>2
  <2> QED BY <1>4, <2>1, <2>3
<1>12. \A x \in S : \E i \in 1 .. n : s[i] = x
  <2>1. IsFiniteSet(1 .. n) /\ Cardinality(1 .. n) = n
    BY <1>1, Intervals
  <2>2. s \in Injection(1 .. n, S)
    BY <1>10, <1>11 DEF Injection, IsInjective
  <2>3. s \in Surjection(1 .. n, S)
    BY <2>1, <2>2, FS_Injection
  <2> QED BY <2>3 DEF Surjection
<1> QED BY <1>10, <1>11, <1>12 DEF s

-----------------------------------------------------------------------------
(* The first body that fits. *)

\* Sizes are numbers, and those of printers with the same detail left are the same.
LEMMA Sizes ==
  ASSUME NEW printers \in Seq(Snap), NEW removed
  PROVE  /\ Bytes(printers, removed) \in Nat
         /\ \A other : (\A k \in DOMAIN printers :
                          printers[k].detail \ removed = printers[k].detail \ other)
                       => Bytes(printers, removed) = Bytes(printers, other)
<1>1. Len(printers) \in Nat /\ DOMAIN printers = 1 .. Len(printers)
  OBVIOUS
<1>2. IsFiniteSet(DOMAIN printers)
  BY <1>1, Intervals
<1>3. IsFiniteSet(Class)
  <2>1. IsFiniteSet({"stage"})
    BY FS_Singleton
  <2>2. IsFiniteSet({"stage"} \cup {"target"})
    BY <2>1, FS_AddElement
  <2>3. IsFiniteSet({"stage"} \cup {"target"} \cup {"current"})
    BY <2>2, FS_AddElement
  <2>4. Class = {"stage"} \cup {"target"} \cup {"current"}
    BY DEF Class
  <2> QED BY <2>3, <2>4
<1>4. IsFiniteSet((DOMAIN printers) \X Class)
  BY <1>2, <1>3, FS_Product
<1>5. Details(printers, removed) \subseteq (DOMAIN printers) \X Class
  BY DEF Details
<1>6. Cardinality(Details(printers, removed)) \in Nat
  BY <1>4, <1>5, FS_Subset, FS_CardinalityType
<1>7. Bytes(printers, removed) \in Nat
  <2>1. EnvelopeBytes \in Nat /\ PrinterBytes \in Nat /\ DetailBytes \in Nat
    BY BytesAssumption
  <2>2. PrinterBytes * Len(printers) \in Nat
    BY <1>1, <2>1
  <2>3. DetailBytes * Cardinality(Details(printers, removed)) \in Nat
    BY <1>6, <2>1
  <2> QED BY <2>1, <2>2, <2>3 DEF Bytes
<1>8. ASSUME NEW other, \A k \in DOMAIN printers :
               printers[k].detail \ removed = printers[k].detail \ other
      PROVE  Bytes(printers, removed) = Bytes(printers, other)
  <2>1. Details(printers, removed) = Details(printers, other)
    BY <1>8 DEF Details
  <2> QED BY <2>1 DEF Bytes
<1> QED BY <1>7, <1>8

\* A class is gone after its turn, if the body was too big.
LEMMA Sheds ==
  ASSUME NEW printers \in Seq(Snap), NEW removed, NEW class, NEW maxBytes \in Nat,
         NEW as, \A k \in DOMAIN printers :
                   printers[k].detail \ removed = printers[k].detail \ as
  PROVE  LET next == Shed(printers, removed, class, maxBytes) IN
         /\ Bytes(printers, as) <= maxBytes => next = removed
         /\ Bytes(printers, as) > maxBytes =>
              \A k \in DOMAIN printers :
                printers[k].detail \ next = printers[k].detail \ (as \cup {class})
<1> DEFINE next == Shed(printers, removed, class, maxBytes)
<1>1. Bytes(printers, removed) = Bytes(printers, as) /\ Bytes(printers, removed) \in Nat
  BY Sizes
<1>2. Bytes(printers, as) <= maxBytes => next = removed
  <2>1. Bytes(printers, as) <= maxBytes => ~ (Bytes(printers, removed) > maxBytes)
    <3>1. PICK b \in Nat : b = Bytes(printers, removed)
      BY <1>1
    <3>2. b <= maxBytes => ~ (b > maxBytes)
      OBVIOUS
    <3> QED BY <1>1, <3>1, <3>2
  <2> QED BY <2>1 DEF Shed
<1>3. ASSUME Bytes(printers, as) > maxBytes, NEW k \in DOMAIN printers
      PROVE  printers[k].detail \ next = printers[k].detail \ (as \cup {class})
  <2>1. printers[k].detail \ removed = printers[k].detail \ as
    OBVIOUS
  <2>2. CASE \E l \in DOMAIN printers : class \in printers[l].detail
    <3>1. next = removed \cup {class}
      BY <1>1, <1>3, <2>2 DEF Shed
    <3> HIDE DEF next
    <3> QED BY <2>1, <3>1
  <2>3. CASE ~ \E l \in DOMAIN printers : class \in printers[l].detail
    <3>1. next = removed
      BY <2>3 DEF Shed
    <3>2. class \notin printers[k].detail
      BY <2>3
    <3> HIDE DEF next
    <3> QED BY <2>1, <3>1, <3>2
  <2> QED BY <2>2, <2>3
<1> QED BY <1>2, <1>3

\* Of two integers.
LEMMA OfTwo ==
  ASSUME NEW a \in Int, NEW b \in Int
  PROVE  /\ a <= b => Min({a, b}) = a /\ Max({a, b}) = b
         /\ b <= a => Min({a, b}) = b /\ Max({a, b}) = a
<1>1. IsFiniteSet({a, b})
  <2>1. IsFiniteSet({a})
    BY FS_Singleton
  <2>2. IsFiniteSet({a} \cup {b})
    BY <2>1, FS_AddElement
  <2>3. {a, b} = {a} \cup {b}
    OBVIOUS
  <2> QED BY <2>2, <2>3
<1>2. PICK low, high : low = Min({a, b}) /\ high = Max({a, b})
  OBVIOUS
<1>3. /\ low \in {a, b} /\ \A x \in {a, b} : low <= x
      /\ high \in {a, b} /\ \A x \in {a, b} : high >= x
  BY <1>1, <1>2, Extremes
<1>4. (low = a \/ low = b) /\ low <= a /\ low <= b
  BY <1>3
<1>5. (high = a \/ high = b) /\ high >= a /\ high >= b
  BY <1>3
<1>6. (a <= b => low = a /\ high = b) /\ (b <= a => low = b /\ high = a)
  BY <1>4, <1>5
<1> QED BY <1>2, <1>6

\* The classes go one by one in their order, before any printer does.
LEMMA Removals ==
  /\ Removed(0) = {} /\ Removed(1) = {"stage"} /\ Removed(2) = {"stage", "target"}
  /\ \A i \in Nat : i >= 3 => Removed(i) = Class
<1>1. Classes[1] = "stage" /\ Classes[2] = "target" /\ Classes[3] = "current"
  BY DEF Classes
<1>2. Min({0, 3}) = 0 /\ Min({1, 3}) = 1 /\ Min({2, 3}) = 2
  BY OfTwo
<1>3. Removed(0) = {}
  <2>1. 1 .. 0 = {}
    OBVIOUS
  <2> QED BY <1>2, <2>1 DEF Removed
<1>4. Removed(1) = {"stage"}
  <2>1. 1 .. 1 = {1}
    OBVIOUS
  <2>2. Removed(1) = {Classes[k] : k \in {1}}
    BY <1>2, <2>1 DEF Removed
  <2> QED BY <1>1, <2>2
<1>5. Removed(2) = {"stage", "target"}
  <2>1. 1 .. 2 = {1, 2}
    OBVIOUS
  <2>2. Removed(2) = {Classes[k] : k \in {1, 2}}
    BY <1>2, <2>1 DEF Removed
  <2> QED BY <1>1, <2>2
<1>6. ASSUME NEW i \in Nat, i >= 3 PROVE Removed(i) = Class
  <2>1. Min({i, 3}) = 3
    BY <1>6, OfTwo
  <2>2. 1 .. 3 = {1, 2, 3}
    OBVIOUS
  <2>3. Removed(i) = {Classes[k] : k \in {1, 2, 3}}
    BY <2>1, <2>2 DEF Removed
  <2> QED BY <1>1, <2>3 DEF Class
<1> QED BY <1>3, <1>4, <1>5, <1>6

\* All printers to begin with, then the first of them, down to one.
LEMMA Bodies ==
  ASSUME NEW printers \in Seq(Snap), NEW i \in 0 .. 2 + Len(printers)
  PROVE  LET n == Len(printers) - Max({0, i - 3}) IN
         /\ i <= 3 => n = Len(printers) /\ Body(printers, i) = printers
         /\ i >= 3 => n = Len(printers) + 3 - i /\ n \in 1 .. Len(printers)
         /\ n \in 0 .. Len(printers)
         /\ Body(printers, i) \in Seq(Snap) /\ Len(Body(printers, i)) = n
         /\ \A k \in 1 .. n : Body(printers, i)[k] = printers[k]
<1> DEFINE n == Len(printers) - Max({0, i - 3})
           body == Body(printers, i)
<1>0. Len(printers) \in Nat /\ i \in Nat /\ i <= 2 + Len(printers)
  OBVIOUS
<1>1. i <= 3 => Max({0, i - 3}) = 0
  <2>1. PICK b \in Int : b = i - 3
    BY <1>0
  <2>2. 0 \in Int /\ (i <= 3 => b <= 0)
    BY <1>0, <2>1
  <2>3. b <= 0 => Max({0, b}) = 0
    BY <2>2, OfTwo
  <2> QED BY <2>1, <2>2, <2>3
<1>2. i >= 3 => Max({0, i - 3}) = i - 3
  <2>1. PICK b \in Int : b = i - 3
    BY <1>0
  <2>2. 0 \in Int /\ (i >= 3 => 0 <= b)
    BY <1>0, <2>1
  <2>3. 0 <= b => Max({0, b}) = b
    BY <2>2, OfTwo
  <2> QED BY <2>1, <2>2, <2>3
<1>3. /\ i <= 3 => n = Len(printers)
      /\ i >= 3 => n = Len(printers) + 3 - i /\ n \in 1 .. Len(printers)
      /\ n \in 0 .. Len(printers)
  <2>1. PICK d, all : d = Max({0, i - 3}) /\ all = Len(printers)
    OBVIOUS
  <2>2. (i <= 3 => d = 0) /\ (i >= 3 => d = i - 3)
    BY <1>1, <1>2, <2>1
  <2>3. n = all - d
    BY <2>1
  <2>4. all \in Nat /\ i <= 2 + all
    BY <1>0, <2>1
  <2> HIDE DEF n
  <2>5. i <= 3 => n = all /\ n \in 0 .. all
    BY <2>2, <2>3, <2>4
  <2>6. i >= 3 => n = all + 3 - i /\ n \in 1 .. all /\ n \in 0 .. all
    BY <1>0, <2>2, <2>3, <2>4
  <2>7. i <= 3 \/ i >= 3
    BY <1>0
  <2> QED BY <2>1, <2>5, <2>6, <2>7
<1>4. body = SubSeq(printers, 1, n)
  BY DEF Body
<1> HIDE DEF n, body
<1>5. \A k \in 1 .. n : printers[k] \in Snap
  <2>1. \A k \in 1 .. Len(printers) : printers[k] \in Snap
    OBVIOUS
  <2>2. 1 .. n \subseteq 1 .. Len(printers)
    BY <1>0, <1>3
  <2> QED BY <2>1, <2>2
<1>6. 1 \in Int /\ n \in Int /\ n >= 0
  BY <1>3
<1>7. /\ body \in Seq(Snap)
      /\ Len(body) = IF 1 <= n THEN n - 1 + 1 ELSE 0
      /\ \A k \in 1 .. n - 1 + 1 : body[k] = printers[1 + k - 1]
  BY <1>4, <1>5, <1>6, SubSeqProperties
<1>8. Len(body) = n /\ \A k \in 1 .. n : body[k] = printers[k]
  <2>1. n - 1 + 1 = n /\ (~ (1 <= n) => n = 0)
    BY <1>6
  <2>2. \A k \in 1 .. n : 1 + k - 1 = k
    BY <1>6
  <2> QED BY <1>7, <2>1, <2>2
<1>9. i <= 3 => body = printers
  BY <1>3, <1>7, <1>8
<1> QED BY <1>3, <1>7, <1>8, <1>9 DEF n, body

\* A bound in the set is its greatest element.
LEMMA MaxIs ==
  ASSUME NEW n \in Nat, NEW S \in SUBSET (1 .. n), NEW m \in S, \A x \in S : x <= m
  PROVE  Max(S) = m
<1>1. IsFiniteSet(S) /\ S \in SUBSET Int /\ S # {}
  <2>1. IsFiniteSet(1 .. n) /\ 1 .. n \subseteq Int
    BY Intervals
  <2>2. IsFiniteSet(S)
    BY <2>1, FS_Subset
  <2> QED BY <2>1, <2>2
<1>2. Max(S) \in S /\ Max(S) >= m
  BY <1>1, Extremes
<1>3. PICK x \in S : x = Max(S)
  BY <1>2
<1>4. x \in Int /\ m \in Int /\ x <= m /\ x >= m
  BY <1>2, <1>3
<1> QED BY <1>3, <1>4

\* It is one of the bodies, and none before it fits.
LEMMA Chosen ==
  ASSUME NEW printers \in Seq(Snap), NEW maxBytes \in Nat, NEW i, i = Choice(printers, maxBytes)
  PROVE  /\ i \in 0 .. 2 + Len(printers)
         /\ Fits(printers, maxBytes) # {} =>
              i \in Fits(printers, maxBytes) /\ \A j \in Fits(printers, maxBytes) : i <= j
         /\ Fits(printers, maxBytes) = {} => i = 2 + Len(printers)
<1> DEFINE all == 0 .. 2 + Len(printers)
<1>1. 0 \in Int /\ 2 + Len(printers) \in Int /\ 2 + Len(printers) \in all
  OBVIOUS
<1>2. IsFiniteSet(all)
  BY <1>1, FS_Interval, Zenon
<1>3. Fits(printers, maxBytes) \subseteq all /\ all \subseteq Int
  BY <1>1 DEF Fits
<1> HIDE DEF all
<1>4. IsFiniteSet(Fits(printers, maxBytes)) /\ Fits(printers, maxBytes) \in SUBSET Int
  BY <1>2, <1>3, FS_Subset
<1>5. CASE Fits(printers, maxBytes) = {}
  BY <1>1, <1>5 DEF Choice, all
<1>6. CASE Fits(printers, maxBytes) # {}
  <2>1. i = Min(Fits(printers, maxBytes))
    BY <1>6 DEF Choice
  <2>2. i \in Fits(printers, maxBytes) /\ \A j \in Fits(printers, maxBytes) : i <= j
    BY <1>4, <1>6, <2>1, Extremes
  <2> QED BY <1>3, <1>6, <2>2 DEF all
<1> QED BY <1>5, <1>6

\* A body that fits keeps its printers.
LEMMA KeptAll ==
  ASSUME NEW printers \in Seq(Snap), NEW maxBytes \in Nat, NEW removed,
         Bytes(printers, removed) <= maxBytes
  PROVE  Kept(printers, removed, maxBytes) = Len(printers)
<1>1. CASE printers = <<>>
  BY <1>1 DEF Kept
<1>2. CASE printers # <<>>
  <2>1. PICK n \in Nat : n = Len(printers) /\ n # 0 /\ DOMAIN printers = 1 .. n
    BY <1>2
  <2>2. SubSeq(printers, 1, n) = printers
    <3>1. 0 \in 0 .. 2 + Len(printers) /\ 0 <= 3
      OBVIOUS
    <3>2. Len(printers) - Max({0, 0 - 3}) = n /\ Body(printers, 0) = printers
      BY <2>1, <3>1, Bodies
    <3> QED BY <3>2 DEF Body
  <2> DEFINE S == {1} \cup {m \in DOMAIN printers :
                              Bytes(SubSeq(printers, 1, m), removed) <= maxBytes}
  <2>3. Kept(printers, removed, maxBytes) = Max(S)
    BY <1>2 DEF Kept
  <2>4. n \in S /\ S \in SUBSET (1 .. n)
    <3>1. n \in 1 .. n /\ 1 \in 1 .. n
      BY <2>1
    <3>2. Bytes(SubSeq(printers, 1, n), removed) <= maxBytes
      BY <2>2
    <3> QED BY <2>1, <3>1, <3>2
  <2>5. \A x \in S : x <= n
    BY <2>4
  <2> HIDE DEF S
  <2>6. Max(S) = n
    BY <2>4, <2>5, MaxIs
  <2> QED BY <2>1, <2>3, <2>6
<1> QED BY <1>1, <1>2

\* With all detail gone, as many printers as the first body that fits has.
LEMMA KeptSome ==
  ASSUME NEW printers \in Seq(Snap), NEW maxBytes \in Nat, NEW removed,
         \A k \in DOMAIN printers : printers[k].detail \ removed = printers[k].detail \ Class,
         NEW i, i = Choice(printers, maxBytes),
         \A j \in Fits(printers, maxBytes) : j >= 3
  PROVE  /\ Kept(printers, removed, maxBytes) = Len(Body(printers, i))
         /\ printers # <<>> => i >= 3
<1>1. PICK n \in Nat : n = Len(printers) /\ DOMAIN printers = 1 .. n
  OBVIOUS
<1>2. /\ i \in 0 .. 2 + n
      /\ Fits(printers, maxBytes) # {} =>
           i \in Fits(printers, maxBytes) /\ \A j \in Fits(printers, maxBytes) : i <= j
      /\ Fits(printers, maxBytes) = {} => i = 2 + n
  BY <1>1, Chosen
<1>3. CASE printers = <<>>
  <2>1. Len(Body(printers, i)) \in 0 .. Len(printers)
    BY <1>1, <1>2, Bodies
  <2>2. Len(Body(printers, i)) = 0
    BY <1>3, <2>1
  <2> QED BY <1>3, <2>2 DEF Kept
<1>4. CASE printers # <<>>
  <2>1. n >= 1
    BY <1>1, <1>4
  <2>2. i >= 3
    <3>1. CASE Fits(printers, maxBytes) = {}
      BY <1>2, <2>1, <3>1
    <3>2. CASE Fits(printers, maxBytes) # {}
      BY <1>2, <3>2
    <3> QED BY <3>1, <3>2
  <2>3. PICK m : m = Len(Body(printers, i))
    OBVIOUS
  <2>4. m = n + 3 - i /\ m \in 1 .. n
    <3>1. i \in 0 .. 2 + Len(printers)
      BY <1>1, <1>2
    <3>2. PICK d : d = Len(printers) - Max({0, i - 3})
      OBVIOUS
    <3>3. d = n + 3 - i /\ d \in 1 .. n /\ m = d
      BY <1>1, <2>2, <2>3, <3>1, <3>2, Bodies
    <3> QED BY <3>3
  <2>5. ASSUME NEW l \in 1 .. n
        PROVE  Bytes(SubSeq(printers, 1, l), removed) <= maxBytes
                 <=> n + 3 - l \in Fits(printers, maxBytes)
    <3>1. PICK j : j = n + 3 - l
      OBVIOUS
    <3>2. j \in 0 .. 2 + n /\ j >= 3 /\ n + 3 - j = l
      BY <2>1, <3>1
    <3>3. /\ Len(printers) - Max({0, j - 3}) = l
          /\ Body(printers, j) \in Seq(Snap) /\ Len(Body(printers, j)) = l
          /\ \A k \in 1 .. l : Body(printers, j)[k] = printers[k]
      BY <1>1, <3>2, Bodies
    <3>4. SubSeq(printers, 1, l) = Body(printers, j)
      BY <3>3 DEF Body
    <3>5. Removed(j) = Class
      BY <3>2, Removals
    <3>6. PICK body \in Seq(Snap) : body = Body(printers, j)
      BY <3>3
    <3>7. \A k \in DOMAIN body : body[k].detail \ removed = body[k].detail \ Class
      <4>1. DOMAIN body = 1 .. l /\ 1 .. l \subseteq DOMAIN printers
        BY <1>1, <3>3, <3>6
      <4>2. \A k \in DOMAIN body : k \in DOMAIN printers /\ body[k] = printers[k]
        BY <3>3, <3>6, <4>1
      <4> QED BY <4>2
    <3>8. Bytes(body, removed) = Bytes(body, Class)
      BY <3>7, Sizes
    <3>9. j \in Fits(printers, maxBytes) <=> Bytes(body, Class) <= maxBytes
      BY <1>1, <3>2, <3>5, <3>6 DEF Fits
    <3> QED BY <3>1, <3>4, <3>6, <3>8, <3>9
  <2> DEFINE S == {1} \cup {l \in DOMAIN printers :
                              Bytes(SubSeq(printers, 1, l), removed) <= maxBytes}
  <2>6. Kept(printers, removed, maxBytes) = Max(S)
    BY <1>4 DEF Kept
  <2>7. S = {1} \cup {l \in 1 .. n : n + 3 - l \in Fits(printers, maxBytes)}
    BY <1>1, <2>5
  <2> HIDE DEF S
  <2>8. S \in SUBSET (1 .. n)
    BY <2>1, <2>7
  <2>9. m \in S
    <3>1. CASE Fits(printers, maxBytes) = {}
      BY <1>2, <2>4, <2>7, <3>1
    <3>2. CASE Fits(printers, maxBytes) # {}
      <4>1. n + 3 - m = i
        BY <1>2, <2>4
      <4> QED BY <1>2, <2>4, <2>7, <3>2, <4>1
    <3> QED BY <3>1, <3>2
  <2>10. \A x \in S : x <= m
    <3> SUFFICES ASSUME NEW x \in S PROVE x <= m
      OBVIOUS
    <3>1. CASE x = 1
      BY <2>4, <3>1
    <3>2. CASE x \in 1 .. n /\ n + 3 - x \in Fits(printers, maxBytes)
      <4>1. i <= n + 3 - x
        BY <1>2, <3>2
      <4> QED BY <1>2, <2>4, <3>2, <4>1
    <3> QED BY <2>7, <3>1, <3>2
  <2>11. Max(S) = m
    BY <2>8, <2>9, <2>10, MaxIs
  <2> QED BY <2>2, <2>3, <2>6, <2>11
<1> QED BY <1>3, <1>4

\* What is removed in the end, and the printers shown with that.
Shedding(printers, maxBytes) ==
  Shed(printers, Shed(printers, Shed(printers, {}, "stage", maxBytes), "target", maxBytes),
       "current", maxBytes)
Cutting(printers, maxBytes) ==
  SubSeq(printers, 1, Kept(printers, Shedding(printers, maxBytes), maxBytes))

\* What is removed and how many printers are kept are those of the first body that fits.
LEMMA FirstBody ==
  ASSUME NEW printers \in Seq(Snap), NEW maxBytes \in Nat
  PROVE  LET i == Choice(printers, maxBytes)
             three == Shedding(printers, maxBytes) IN
         /\ i \in 0 .. 2 + Len(printers)
         /\ Kept(printers, three, maxBytes) = Len(Body(printers, i))
         /\ \A k \in DOMAIN printers :
              printers[k].detail \ three = printers[k].detail \ Removed(i)
<1>0. PICK one, two, three, i :
        /\ one = Shed(printers, {}, "stage", maxBytes)
        /\ two = Shed(printers, one, "target", maxBytes)
        /\ three = Shed(printers, two, "current", maxBytes)
        /\ i = Choice(printers, maxBytes)
  OBVIOUS
<1> DEFINE Fit == Fits(printers, maxBytes)
           Same(a, b) == \A k \in DOMAIN printers :
                           printers[k].detail \ a = printers[k].detail \ b
<1>16. three = Shedding(printers, maxBytes)
  BY <1>0 DEF Shedding
<1>1. /\ i \in 0 .. 2 + Len(printers)
      /\ Fit # {} => i \in Fit /\ \A j \in Fit : i <= j
      /\ Fit = {} => i = 2 + Len(printers)
  BY <1>0, Chosen
<1>2. Fit \subseteq Nat
  BY DEF Fits
<1>3. \A j \in {0, 1, 2} : j \in Fit <=> Bytes(printers, Removed(j)) <= maxBytes
  <2> SUFFICES ASSUME NEW j \in {0, 1, 2}
               PROVE  j \in Fit <=> Bytes(printers, Removed(j)) <= maxBytes
    OBVIOUS
  <2>1. j \in 0 .. 2 + Len(printers) /\ j <= 3
    <3>1. PICK n : n = Len(printers) /\ n \in Nat
      BY LenProperties
    <3>2. j = 0 \/ j = 1 \/ j = 2
      OBVIOUS
    <3>3. j \in 0 .. 2 + n /\ j <= 3
      BY <3>1, <3>2
    <3> QED BY <3>1, <3>3
  <2>2. Body(printers, j) = printers
    BY <2>1, Bodies
  <2> QED BY <2>1, <2>2 DEF Fits
<1>4. Removed(0) = {} /\ Removed(1) = {"stage"} /\ Removed(2) = {"stage", "target"}
  BY Removals
<1>5. \A r : Bytes(printers, r) \in Nat
  BY Sizes
<1>6. \A j \in {0, 1, 2} : j \notin Fit => Bytes(printers, Removed(j)) > maxBytes
  BY <1>3, <1>5
<1>7. Same({}, {})
  OBVIOUS
<1> SUFFICES /\ Kept(printers, three, maxBytes) = Len(Body(printers, i))
             /\ Same(three, Removed(i))
  BY <1>0, <1>1, <1>16
<1> HIDE DEF Fit
\* The first body that fits has all printers.
<1>8. ASSUME NEW j \in {0, 1, 2}, j \in Fit, \A l \in Fit : j <= l, Same(three, Removed(j))
      PROVE  /\ Kept(printers, three, maxBytes) = Len(Body(printers, i))
             /\ Same(three, Removed(i))
  <2>1. i = j
    <3>1. i \in Nat /\ j \in Nat /\ i <= j /\ j <= i
      BY <1>1, <1>2, <1>8
    <3> QED BY <3>1
  <2>2. i <= 3
    BY <2>1
  <2>3. Body(printers, i) = printers
    BY <1>1, <2>2, Bodies
  <2>4. Bytes(printers, three) = Bytes(printers, Removed(j))
    BY <1>8, Sizes
  <2>5. Bytes(printers, three) <= maxBytes
    BY <1>3, <1>8, <2>4
  <2>6. Kept(printers, three, maxBytes) = Len(printers)
    BY <2>5, KeptAll
  <2> QED BY <1>8, <2>1, <2>3, <2>6
<1>9. CASE 0 \in Fit
  <2>1. Bytes(printers, {}) <= maxBytes
    BY <1>3, <1>4, <1>9
  <2>2. one = {}
    BY <1>0, <1>7, <2>1, Sheds
  <2>3. two = {}
    BY <1>0, <1>7, <2>1, <2>2, Sheds
  <2>4. three = {}
    BY <1>0, <1>7, <2>1, <2>3, Sheds
  <2>5. Same(three, Removed(0))
    BY <1>4, <2>4
  <2>6. \A l \in Fit : 0 <= l
    BY <1>2
  <2> QED BY <1>8, <1>9, <2>5, <2>6
<1>10. ASSUME 0 \notin Fit PROVE Same(one, {"stage"})
  <2>1. Bytes(printers, {}) > maxBytes
    BY <1>4, <1>6, <1>10
  <2>2. Same(one, {} \cup {"stage"})
    BY <1>0, <1>7, <2>1, Sheds
  <2> QED BY <2>2
<1>11. CASE 0 \notin Fit /\ 1 \in Fit
  <2>1. Bytes(printers, {"stage"}) <= maxBytes
    BY <1>3, <1>4, <1>11
  <2>2. two = one
    BY <1>0, <1>10, <1>11, <2>1, Sheds
  <2>3. three = one
    BY <1>0, <1>10, <1>11, <2>1, <2>2, Sheds
  <2>4. Same(three, Removed(1)) /\ \A l \in Fit : 1 <= l
    BY <1>2, <1>4, <1>10, <1>11, <2>3
  <2> QED BY <1>1, <1>8, <1>11, <2>4
<1>12. ASSUME 0 \notin Fit, 1 \notin Fit PROVE Same(two, {"stage", "target"})
  <2>1. Bytes(printers, {"stage"}) > maxBytes
    BY <1>4, <1>6, <1>12
  <2>2. Same(two, {"stage"} \cup {"target"})
    BY <1>0, <1>10, <1>12, <2>1, Sheds
  <2>3. {"stage"} \cup {"target"} = {"stage", "target"}
    OBVIOUS
  <2> QED BY <2>2, <2>3
<1>13. CASE 0 \notin Fit /\ 1 \notin Fit /\ 2 \in Fit
  <2>1. Bytes(printers, {"stage", "target"}) <= maxBytes
    BY <1>3, <1>4, <1>13
  <2>2. three = two
    BY <1>0, <1>12, <1>13, <2>1, Sheds
  <2>3. Same(three, Removed(2)) /\ \A l \in Fit : 2 <= l
    BY <1>2, <1>4, <1>12, <1>13, <2>2
  <2> QED BY <1>1, <1>8, <1>13, <2>3
<1>14. CASE 0 \notin Fit /\ 1 \notin Fit /\ 2 \notin Fit
  <2>1. Bytes(printers, {"stage", "target"}) > maxBytes
    BY <1>4, <1>6, <1>14
  <2>2. Same(three, {"stage", "target"} \cup {"current"})
    BY <1>0, <1>12, <1>14, <2>1, Sheds
  <2>3. {"stage", "target"} \cup {"current"} = Class
    BY DEF Class
  <2>4. Same(three, Class)
    BY <2>2, <2>3
  <2>5. \A j \in Fit : j >= 3
    BY <1>2, <1>14
  <2>6. /\ Kept(printers, three, maxBytes) = Len(Body(printers, i))
        /\ printers # <<>> => i >= 3
    BY <1>0, <2>4, <2>5, KeptSome DEF Fit
  <2>7. CASE printers = <<>>
    <3>1. Len(printers) = 0 /\ DOMAIN printers = 1 .. Len(printers)
      BY <2>7
    <3>2. \A k \in DOMAIN printers : FALSE
      BY <3>1
    <3> QED BY <1>1, <2>6, <3>2
  <2>8. CASE printers # <<>>
    <3>1. i \in Nat /\ i >= 3
      BY <1>1, <2>6, <2>8
    <3>2. Removed(i) = Class
      BY <3>1, Removals
    <3> QED BY <1>1, <2>4, <2>6, <3>2
  <2> QED BY <2>7, <2>8
<1> QED BY <1>9, <1>11, <1>13, <1>14

\* The printers shown are those of the body.
LEMMA Cut ==
  ASSUME NEW all \in Seq(Snap), NEW maxBytes \in Nat
  PROVE  LET i == Choice(all, maxBytes)
             shown == Cutting(all, maxBytes)
             new == Without(shown, Shedding(all, maxBytes)) IN
         /\ shown = Body(all, i) /\ new = Without(shown, Removed(i))
         /\ Len(shown) \in 0 .. Len(all) /\ DOMAIN new = 1 .. Len(shown)
         /\ \A k \in 1 .. Len(shown) : new[k].key = all[k].key
<1>0. PICK i, three, shown : /\ i = Choice(all, maxBytes)
                             /\ three = Shedding(all, maxBytes)
                             /\ shown = SubSeq(all, 1, Kept(all, three, maxBytes))
                             /\ shown = Cutting(all, maxBytes)
  BY DEF Cutting
<1>1. /\ i \in 0 .. 2 + Len(all)
      /\ Kept(all, three, maxBytes) = Len(Body(all, i))
      /\ \A k \in DOMAIN all : all[k].detail \ three = all[k].detail \ Removed(i)
  BY <1>0, FirstBody
<1>2. PICK m : m = Len(all) - Max({0, i - 3})
  OBVIOUS
<1>3. /\ m \in 0 .. Len(all) /\ Len(Body(all, i)) = m /\ Body(all, i) \in Seq(Snap)
      /\ \A k \in 1 .. m : Body(all, i)[k] = all[k]
  BY <1>1, <1>2, Bodies
<1>4. shown = Body(all, i)
  BY <1>0, <1>1, <1>2, <1>3 DEF Body
<1>5. shown \in Seq(Snap) /\ Len(shown) = m /\ \A k \in 1 .. m : shown[k] = all[k]
  BY <1>3, <1>4
<1>6. DOMAIN shown = 1 .. m /\ \A k \in 1 .. m : shown[k] \in Snap
  BY <1>5
<1>7. \A k \in 1 .. m : shown[k].detail \ three = shown[k].detail \ Removed(i)
  <2>1. \A k \in 1 .. m : k \in DOMAIN all
    BY <1>3
  <2> QED BY <1>1, <1>5, <2>1
<1>8. ASSUME NEW k \in 1 .. m
      PROVE  [shown[k] EXCEPT !.detail = @ \ three] = [shown[k] EXCEPT !.detail = @ \ Removed(i)]
  BY <1>7, Zenon
<1>9. Without(shown, three) = Without(shown, Removed(i))
  BY <1>6, <1>8 DEF Without
<1>10. PICK new : new = Without(shown, three)
  OBVIOUS
<1>11. new = [k \in 1 .. m |-> [shown[k] EXCEPT !.detail = @ \ three]]
  BY <1>6, <1>10 DEF Without
<1>12. \A k \in 1 .. m : [shown[k] EXCEPT !.detail = @ \ three].key = shown[k].key
  BY <1>6 DEF Snap
<1>13. DOMAIN new = 1 .. m /\ \A k \in 1 .. m : new[k].key = all[k].key
  BY <1>5, <1>11, <1>12
<1> QED BY <1>0, <1>3, <1>4, <1>5, <1>9, <1>10, <1>13

\* The result in these terms.
LEMMA Building ==
  ASSUME NEW S, Ordered(S) \in [1 .. Cardinality(S) -> S], Cardinality(S) \in Nat,
         NEW maxBytes
  PROVE  LET result == buildWebhookPayload(S, maxBytes) IN
         /\ result.printers = Without(Cutting(All(S), maxBytes), Shedding(All(S), maxBytes))
         /\ result.hidden = Cardinality(S) - Len(Cutting(All(S), maxBytes))
<1>1. PICK n \in Nat : n = Cardinality(S)
  OBVIOUS
<1>2. PICK ordered : ordered = Ordered(S)
  OBVIOUS
<1>3. ordered \in [1 .. n -> S]
  BY <1>1, <1>2
<1>4. Len(ordered) = n
  BY <1>3
<1>5. PICK room : room = IF n < MAX_PRINTERS_SHOWN THEN n ELSE MAX_PRINTERS_SHOWN
  OBVIOUS
<1>6. room = Min({MAX_PRINTERS_SHOWN, n})
  <2>1. MAX_PRINTERS_SHOWN \in Int /\ n \in Int
    BY BytesAssumption
  <2>2. /\ MAX_PRINTERS_SHOWN <= n => Min({MAX_PRINTERS_SHOWN, n}) = MAX_PRINTERS_SHOWN
        /\ n <= MAX_PRINTERS_SHOWN => Min({MAX_PRINTERS_SHOWN, n}) = n
    BY <2>1, OfTwo
  <2> QED BY <1>5, <2>1, <2>2
<1>7. PICK all : all = [k \in 1 .. room |-> toWebhookPrinter(ordered[k])]
  OBVIOUS
<1>8. all = All(S)
  BY <1>1, <1>2, <1>6, <1>7 DEF All
<1>9. PICK three, shown, bytes :
        /\ three = Shedding(all, maxBytes) /\ shown = Cutting(all, maxBytes)
        /\ bytes = Bytes(shown, three)
  OBVIOUS
<1>10. buildWebhookPayload(S, maxBytes) =
         [printers |-> Without(shown, three), hidden |-> Cardinality(S) - Len(shown),
          bytes |-> bytes, sendable |-> bytes <= maxBytes]
  BY <1>2, <1>4, <1>5, <1>7, <1>9
  DEF buildWebhookPayload, Shedding, Cutting, Without
<1> QED BY <1>8, <1>9, <1>10

\* What is built of some snapshots.
LEMMA Built ==
  ASSUME NEW S \in SUBSET Snap, IsFiniteSet(S),
         \A x, y \in S : x.key = y.key => x = y,
         NEW maxBytes \in Nat
  PROVE  LET result == buildWebhookPayload(S, maxBytes)
             i == Choice(All(S), maxBytes) IN
         /\ result.printers = Without(Body(All(S), i), Removed(i))
         /\ Cardinality(Seen(result)) + result.hidden = Cardinality(S)
         /\ \A key \in Seen(result) : \E x \in S : x.key = key
         /\ \A x, y \in S : x.key \in Seen(result) /\ y.key \notin Seen(result) =>
              STATE_PRIORITY[x.state] <= STATE_PRIORITY[y.state]
<1>1. PICK n \in Nat : n = Cardinality(S)
  BY FS_CardinalityType
<1>2. PICK ordered : ordered = Ordered(S)
  OBVIOUS
<1>3. /\ ordered \in [1 .. n -> S]
      /\ \A k, l \in 1 .. n : k < l => Precedes(ordered[k], ordered[l])
      /\ \A k, l \in 1 .. n : ordered[k] = ordered[l] => k = l
      /\ \A x \in S : \E k \in 1 .. n : ordered[k] = x
  BY <1>1, <1>2, OrderedIs
<1>4. PICK room \in 0 .. n : room = Min({MAX_PRINTERS_SHOWN, n})
  <2>1. MAX_PRINTERS_SHOWN \in Int /\ n \in Int /\ MAX_PRINTERS_SHOWN \in Nat
    BY BytesAssumption
  <2>2. /\ MAX_PRINTERS_SHOWN <= n => Min({MAX_PRINTERS_SHOWN, n}) = MAX_PRINTERS_SHOWN
        /\ n <= MAX_PRINTERS_SHOWN => Min({MAX_PRINTERS_SHOWN, n}) = n
    BY <2>1, OfTwo
  <2> QED BY <2>1, <2>2
<1>5. PICK all : all = All(S)
  OBVIOUS
<1>6. all = [k \in 1 .. room |-> toWebhookPrinter(ordered[k])]
  BY <1>1, <1>2, <1>4, <1>5 DEF All
<1>7. \A x \in Snap : toWebhookPrinter(x) \in Snap /\ toWebhookPrinter(x).key = x.key
  BY DEF toWebhookPrinter, Snap
<1>8. \A k \in 1 .. room : /\ toWebhookPrinter(ordered[k]) \in Snap
                           /\ toWebhookPrinter(ordered[k]).key = ordered[k].key
  <2>1. \A k \in 1 .. room : ordered[k] \in Snap
    BY <1>3
  <2> QED BY <1>7, <2>1
<1>9. /\ all \in Seq(Snap) /\ Len(all) = room
      /\ \A k \in 1 .. room : all[k].key = ordered[k].key
  <2>1. all \in [1 .. room -> Snap]
    BY <1>6, <1>8
  <2>2. \A k \in 1 .. room : all[k].key = ordered[k].key
    BY <1>6, <1>8
  <2>3. room \in Nat
    OBVIOUS
  <2> QED BY <2>1, <2>2, <2>3
<1>10. PICK result, new, i, shown : /\ result = buildWebhookPayload(S, maxBytes)
                                   /\ new = result.printers
                                   /\ i = Choice(all, maxBytes)
                                   /\ shown = Cutting(all, maxBytes)
  OBVIOUS
<1>11. new = Without(shown, Shedding(all, maxBytes)) /\ result.hidden = n - Len(shown)
  BY <1>1, <1>2, <1>3, <1>5, <1>10, Building
<1>12. PICK m \in 0 .. room :
         /\ new = Without(Body(all, i), Removed(i))
         /\ Len(shown) = m /\ DOMAIN new = 1 .. m
         /\ \A k \in 1 .. m : new[k].key = all[k].key
  <2>1. PICK m \in 0 .. Len(all) :
          /\ shown = Body(all, i) /\ new = Without(shown, Removed(i))
          /\ Len(shown) = m /\ DOMAIN new = 1 .. m
          /\ \A k \in 1 .. m : new[k].key = all[k].key
    <3>1. all \in Seq(Snap)
      BY <1>9
    <3>2. PICK j, body, three, other :
            /\ j = Choice(all, maxBytes) /\ three = Shedding(all, maxBytes)
            /\ body = Cutting(all, maxBytes) /\ other = Without(body, three)
      OBVIOUS
    <3>3. /\ body = Body(all, j) /\ other = Without(body, Removed(j))
          /\ Len(body) \in 0 .. Len(all) /\ DOMAIN other = 1 .. Len(body)
          /\ \A k \in 1 .. Len(body) : other[k].key = all[k].key
      BY <3>1, <3>2, Cut
    <3>4. body = shown /\ j = i /\ other = new
      BY <1>10, <1>11, <3>2
    <3> QED BY <3>3, <3>4
  <2>2. m \in 0 .. room
    BY <1>9
  <2> QED BY <2>1, <2>2
<1>13. \A k \in 1 .. m : k \in 1 .. room /\ k \in 1 .. n
  OBVIOUS
<1>14. PICK seen : seen = Seen(result)
  OBVIOUS
<1>15. seen = {ordered[k].key : k \in 1 .. m}
  <2>1. seen = {new[k].key : k \in 1 .. m}
    <3>1. seen = {new[k].key : k \in DOMAIN new}
      BY <1>10, <1>14 DEF Seen
    <3>2. DOMAIN new = 1 .. m
      BY <1>12
    <3> QED BY <3>1, <3>2
  <2>2. \A k \in 1 .. m : new[k].key = ordered[k].key
    BY <1>9, <1>12, <1>13
  <2> QED BY <2>1, <2>2
<1>16. \A k, l \in 1 .. m : ordered[k].key = ordered[l].key => k = l
  <2>1. \A k \in 1 .. m : k \in 1 .. n /\ ordered[k] \in S
    BY <1>3, <1>13
  <2> QED BY <1>3, <2>1
<1>17. Cardinality(seen) = m
  <2> DEFINE f == [k \in 1 .. m |-> ordered[k].key]
  <2>1. f \in [1 .. m -> seen]
    BY <1>15
  <2>2. f \in Injection(1 .. m, seen)
    <3>1. IsInjective(f)
      BY <1>16 DEF IsInjective
    <3> QED BY <2>1, <3>1 DEF Injection
  <2>3. f \in Surjection(1 .. m, seen)
    BY <1>15, <2>1 DEF Surjection
  <2> HIDE DEF f
  <2>4. m \in Nat
    OBVIOUS
  <2>5. IsFiniteSet(1 .. m) /\ Cardinality(1 .. m) = m
    BY <2>4, Intervals
  <2>6. Cardinality(seen) = Cardinality(1 .. m)
    BY <2>2, <2>3, <2>5, FS_Surjection
  <2> QED BY <2>5, <2>6
<1>18. Cardinality(seen) + result.hidden = Cardinality(S)
  <2>1. m + (n - m) = n
    OBVIOUS
  <2> QED BY <1>1, <1>11, <1>12, <1>17, <2>1
<1>19. ASSUME NEW x \in S, NEW y \in S, x.key \in seen, y.key \notin seen
       PROVE  STATE_PRIORITY[x.state] <= STATE_PRIORITY[y.state]
  <2>1. PICK k \in 1 .. m : ordered[k].key = x.key
    BY <1>15, <1>19
  <2>2. k \in 1 .. n /\ ordered[k] \in S
    BY <1>3, <1>13
  <2>3. ordered[k] = x
    BY <2>1, <2>2
  <2>4. PICK l \in 1 .. n : ordered[l] = y
    BY <1>3
  <2>5. l \notin 1 .. m
    BY <1>15, <1>19, <2>4
  <2>6. k < l
    BY <2>5
  <2>7. Precedes(x, y)
    BY <1>3, <2>2, <2>3, <2>4, <2>6
  <2> QED BY <2>7, Order
<1>20. ASSUME NEW key \in seen PROVE \E x \in S : x.key = key
  <2>1. PICK k \in 1 .. m : ordered[k].key = key
    BY <1>15
  <2> QED BY <1>3, <1>13, <2>1
<1> QED BY <1>5, <1>10, <1>12, <1>14, <1>18, <1>19, <1>20

\* A printer's state is always one that has a place in the order.
StateShown == \A p \in Printer : record[p]["state"].value \in DisplayState

LEMMA StepShown ==
  ASSUME IInv, StateShown, [Next]_vars
  PROVE  StateShown'
<1>1. \A token : toDisplayState(token) \in DisplayState
  BY DEF toDisplayState, LIVE_STATE_BY_TOKEN, DisplayState
<1>2. \A token : fromTaskStatus(token) \in DisplayState
  BY <1>1 DEF fromTaskStatus, DisplayState
<1> SUFFICES ASSUME NEW q \in Printer PROVE record'[q]["state"].value \in DisplayState
  BY DEF StateShown
<1>3. CASE record'[q]["state"] = record[q]["state"]
  BY <1>3 DEF StateShown
<1>4. CASE \E token : record'[q]["state"].value = toDisplayState(token)
  BY <1>1, <1>4
<1>5. CASE \E token : record'[q]["state"].value = fromTaskStatus(token)
  BY <1>2, <1>5
<1> QED BY <1>3, <1>4, <1>5, StateRead

\* Snapshots are as many as printers, and known by their keys.
Shots == {Snapshot(p) : p \in Printer}

LEMMA Snapshots ==
  ASSUME StateShown
  PROVE  /\ Shots \in SUBSET Snap /\ IsFiniteSet(Shots)
         /\ Cardinality(Shots) = Cardinality(Printer)
         /\ \A x, y \in Shots : x.key = y.key => x = y
         /\ \A p \in Printer : Snapshot(p) \in Shots /\ Snapshot(p).key = p
<1>0. PICK S : S = {Snapshot(p) : p \in Printer}
  OBVIOUS
<1>1. \A p \in Printer : Snapshot(p) \in Snap /\ Snapshot(p).key = p
  <2> SUFFICES ASSUME NEW p \in Printer PROVE Snapshot(p) \in Snap /\ Snapshot(p).key = p
    OBVIOUS
  <2>1. record[p]["state"].value \in DisplayState
    BY DEF StateShown
  <2>2. {"stage", "target", "current"} = Class
    BY DEF Class
  <2> QED BY <2>1, <2>2 DEF Snapshot, Snap
<1>2. PICK f : f = [p \in Printer |-> Snapshot(p)]
  OBVIOUS
<1>3. f \in [Printer -> S] /\ \A p \in Printer : f[p].key = p
  BY <1>0, <1>1, <1>2
<1>4. f \in Injection(Printer, S)
  <2>1. \A p, q \in Printer : f[p] = f[q] => p = q
    BY <1>3
  <2> QED BY <1>3, <2>1 DEF Injection, IsInjective
<1>5. \A x \in S : \E p \in Printer : f[p] = x
  BY <1>0, <1>2
<1>6. f \in Surjection(Printer, S)
  BY <1>3, <1>5 DEF Surjection
<1>7. IsFiniteSet(S) /\ Cardinality(S) = Cardinality(Printer)
  BY <1>4, <1>6, FS_Surjection, DisplayAssumption
<1>8. \A x, y \in S : x.key = y.key => x = y
  <2> SUFFICES ASSUME NEW x \in S, NEW y \in S, x.key = y.key PROVE x = y
    OBVIOUS
  <2>1. PICK p \in Printer, q \in Printer : f[p] = x /\ f[q] = y
    BY <1>5
  <2> QED BY <1>3, <2>1
<1>9. S \in SUBSET Snap /\ \A p \in Printer : Snapshot(p) \in S
  BY <1>0, <1>1
<1> QED BY <1>0, <1>1, <1>7, <1>8, <1>9 DEF Shots

\* For any number of printers, all sizes and all ceilings, what is shown is the
\* first body in the documented order that fits, or the last one.
THEOREM FirstThatFitsIsShown == Spec => []FirstThatFits
<1>1. Init => StateShown
  BY DisplayAssumption DEF Init, StateShown, unknownPrinterState, Unheard, DisplayState
<1>2. StateShown => FirstThatFits
  <2> SUFFICES ASSUME StateShown, NEW maxBytes \in Ceilings
               PROVE  LET all == All(Shots)
                          i == Choice(all, maxBytes)
                          shown == buildWebhookPayload(Shots, maxBytes)
                          seen == Seen(shown) IN
                      /\ shown.printers = Without(Body(all, i), Removed(i))
                      /\ Cardinality(seen) + shown.hidden = Cardinality(Printer)
                      /\ \A p \in seen, q \in Printer \ seen :
                           STATE_PRIORITY[Snapshot(p).state] <= STATE_PRIORITY[Snapshot(q).state]
    BY DEF FirstThatFits, Shown, Shots
  <2>1. /\ Shots \in SUBSET Snap /\ IsFiniteSet(Shots)
        /\ Cardinality(Shots) = Cardinality(Printer)
        /\ \A x, y \in Shots : x.key = y.key => x = y
        /\ \A p \in Printer : Snapshot(p) \in Shots /\ Snapshot(p).key = p
    BY Snapshots
  <2>2. PICK S, all, i, shown, seen :
          /\ S = Shots /\ all = All(S) /\ i = Choice(all, maxBytes)
          /\ shown = buildWebhookPayload(S, maxBytes) /\ seen = Seen(shown)
    OBVIOUS
  <2>3. maxBytes \in Nat
    BY DisplayAssumption
  <2>4. /\ shown.printers = Without(Body(all, i), Removed(i))
        /\ Cardinality(seen) + shown.hidden = Cardinality(S)
        /\ \A key \in seen : \E x \in S : x.key = key
        /\ \A x, y \in S : x.key \in seen /\ y.key \notin seen =>
             STATE_PRIORITY[x.state] <= STATE_PRIORITY[y.state]
    BY <2>1, <2>2, <2>3, Built
  <2>5. seen \subseteq Printer
    BY <2>1, <2>2, <2>4 DEF Shots
  <2>6. \A p \in seen, q \in Printer \ seen :
          STATE_PRIORITY[Snapshot(p).state] <= STATE_PRIORITY[Snapshot(q).state]
    BY <2>1, <2>2, <2>4, <2>5
  <2> QED BY <2>1, <2>2, <2>4, <2>6
<1> QED BY InitIInv, Step, StepShown, <1>1, <1>2, PTL DEF Spec
=============================================================================
