--------------------------- MODULE OperatorsProofs ---------------------------
(***************************************************************************)
(* The theorems of Operators and of the parts it composes, for any number  *)
(* of processes, runs, clients and sends, and any sheets, files and ads.   *)
(*                                                                         *)
(* Each part has an inductive invariant of its own.                        *)
(*   ads         every cached pick and every answer under way is right for *)
(*               an instant since it was read (Right): it holds only ads   *)
(*               on then or switched since, and fills every placement that *)
(*               had an ad on before.                                      *)
(*   import      what a run has looked at and others left alone is gone or *)
(*               still to delete, as the sheet says or still to write      *)
(*               (Good); and the window stored is the one last promised.   *)
(*   timetable   what each stage of a run has left of the documents, and   *)
(*               what a week read, answered or kept was made of.           *)
(*   broadcasts  what each stage of a send says of its reply, its call and *)
(*               the function, and that a repeat follows an unheard end.   *)
(* What was imported is as its sheet said whichever documents they are: a  *)
(* ring taken backwards has the opposite area (the sums of the crosses of  *)
(* its edges, met from either end, and the least place where they would    *)
(* differ), so turned once it stays; and what was sifted sifts to itself.  *)
(* The lemmas on sifting are those of AnswersProofs.                       *)
(*                                                                         *)
(* A step of one part leaves the others' variables alone, so the invariant *)
(* of a part, under the condition that the behaviour is that part's, is    *)
(* one of the whole.                                                       *)
(***************************************************************************)
EXTENDS AnswersProofs, Operators, FiniteSetTheorems, TLAPS

-----------------------------------------------------------------------------
(* The ads *)

\* A pick is right for time t: each of its ads was in its window then, and on or
\* switched since; and no placement is empty that had an ad on before.
On(pick, t) ==
    \A p \in DOMAIN pick : pick[p] # Null =>
        /\ pick[p] \in DOMAIN ads
        /\ ads[pick[p]].placement = p
        /\ (ads[pick[p]].enabled /\ ~ads[pick[p]].gone) \/ ads[pick[p]].changed >= t
        /\ InWindow(ads[pick[p]], t)
Filled(pick, t) ==
    \A i \in DOMAIN ads :
        ads[i].enabled /\ ~ads[i].gone /\ ads[i].changed < t /\ InWindow(ads[i], t) =>
            /\ pick # FALLBACK_PLACEMENTS
            /\ ads[i].placement \in DOMAIN pick
            /\ pick[ads[i].placement] # Null
Right(pick, t) == t \in Nat /\ t <= clock /\ On(pick, t) /\ Filled(pick, t)

CacheRight == \A p \in Process : cache[p] # Null => Right(cache[p].pick, cache[p].since)
ReadsBegun ==
    \A c \in Client : reading[c] # Null =>
        /\ reading[c].now <= clock
        /\ reading[c].pick # Null => Right(reading[c].pick, reading[c].now)
AnswerRight ==
    answer # Null /\ ~answer.failed => \E t \in Within(answer.asked) : Right(answer.pick, t)

AdsInv == AdsTypeOK /\ CacheRight /\ ReadsBegun /\ AnswerRight /\ SeededOnce

\* How the collection may change: an ad keeps its placement and window, and one that
\* is changed or added carries the present time.
Switched ==
    /\ clock' \in Nat /\ clock <= clock'
    /\ DOMAIN ads \subseteq DOMAIN ads'
    /\ \A i \in DOMAIN ads :
          /\ ads'[i].placement = ads[i].placement
          /\ ads'[i].startDate = ads[i].startDate /\ ads'[i].endDate = ads[i].endDate
          /\ ads'[i] = ads[i] \/ ads'[i].changed = clock
    /\ \A i \in DOMAIN ads' \ DOMAIN ads : ads'[i].changed = clock

\* What was right for a time stays right for it.
LEMMA StaysRight ==
    ASSUME AdsTypeOK, AdsTypeOK', Switched, NEW pick, NEW t, Right(pick, t)
    PROVE  Right(pick, t)'
<1>0. t \in Nat /\ t <= clock /\ clock \in Nat /\ clock' \in Nat /\ t <= clock'
  BY DEF Right, Switched, AdsTypeOK
<1>1. On(pick, t)'
  <2> SUFFICES ASSUME NEW p \in DOMAIN pick, pick[p] # Null
               PROVE  /\ pick[p] \in DOMAIN ads'
                      /\ ads'[pick[p]].placement = p
                      /\ \/ ads'[pick[p]].enabled /\ ~ads'[pick[p]].gone
                         \/ ads'[pick[p]].changed >= t
                      /\ InWindow(ads'[pick[p]], t)
    BY DEF On
  <2>1. /\ pick[p] \in DOMAIN ads
        /\ ads[pick[p]].placement = p
        /\ (ads[pick[p]].enabled /\ ~ads[pick[p]].gone) \/ ads[pick[p]].changed >= t
        /\ InWindow(ads[pick[p]], t)
    BY DEF Right, On
  <2>2. ads'[pick[p]] = ads[pick[p]] \/ ads'[pick[p]].changed = clock
    BY <2>1 DEF Switched
  <2> QED
    BY <1>0, <2>1, <2>2 DEF Switched, InWindow
<1>2. Filled(pick, t)'
  <2> SUFFICES ASSUME NEW i \in DOMAIN ads', ads'[i].enabled, ~ads'[i].gone,
                      ads'[i].changed < t, InWindow(ads'[i], t)
               PROVE  /\ pick # FALLBACK_PLACEMENTS
                      /\ ads'[i].placement \in DOMAIN pick
                      /\ pick[ads'[i].placement] # Null
    BY DEF Filled
  <2>1. ads'[i].changed # clock
    BY <1>0
  <2>2. i \in DOMAIN ads /\ ads'[i] = ads[i]
    BY <2>1 DEF Switched
  <2> QED
    BY <2>2 DEF Right, Filled
<1> QED
  BY <1>0, <1>1, <1>2 DEF Right

\* The pick of a read is right for the time the read was asked for.
LEMMA PickRight ==
    ASSUME AdsTypeOK, NEW now \in Nat, now <= clock,
           NEW pick \in Picks({i \in DOMAIN ads : Live(ads[i], now)})
    PROVE  pick \in Pick /\ Right(pick, now)
<1> DEFINE found == {i \in DOMAIN ads : Live(ads[i], now)}
           placements == {ads[i].placement : i \in found}
<1>0. DOMAIN ads \subseteq Nat /\ \A i \in DOMAIN ads : ads[i] \in Ad
  BY DEF AdsTypeOK
<1>1. CASE found = {}
  <2>1. pick = FALLBACK_PLACEMENTS
    BY <1>1 DEF Picks
  <2>2. pick \in Pick
    <3>1. FALLBACK_PLACEMENTS \in [Placement -> Nat \cup {Null}]
      BY DEF FALLBACK_PLACEMENTS
    <3> QED
      BY <2>1, <3>1 DEF Pick
  <2>3. On(pick, now)
    BY <2>1 DEF On, FALLBACK_PLACEMENTS
  <2>4. Filled(pick, now)
    BY <1>1 DEF Filled, Live, InWindow
  <2> QED
    BY <2>2, <2>3, <2>4 DEF Right
<1>2. CASE found # {}
  <2>1. pick \in [placements -> found] /\ \A p \in placements : pick[p] \in Selectable(found, p)
    BY <1>2 DEF Picks
  <2>2. \A p \in placements : pick[p] \in found /\ ads[pick[p]].placement = p
    BY <2>1 DEF Selectable
  <2>3. placements \in SUBSET Placement
    BY <1>0 DEF Ad
  <2>4. pick \in [placements -> Nat \cup {Null}]
    BY <2>1, <1>0
  <2>5. pick \in Pick
    BY <2>3, <2>4 DEF Pick
  <2>6. On(pick, now)
    BY <2>1, <2>2 DEF On, Live, InWindow
  <2>7. pick # FALLBACK_PLACEMENTS
    <3>1. PICK p \in placements : TRUE
      BY <1>2
    <3>2. pick[p] \in Nat /\ p \in Placement
      BY <2>2, <2>3, <1>0, <3>1
    <3> QED
      BY <3>2, AdsAssumption DEF FALLBACK_PLACEMENTS
  <2>8. Filled(pick, now)
    <3> SUFFICES ASSUME NEW i \in DOMAIN ads, ads[i].enabled, ~ads[i].gone,
                        InWindow(ads[i], now)
                 PROVE  ads[i].placement \in DOMAIN pick /\ pick[ads[i].placement] # Null
      BY <2>7 DEF Filled
    <3>1. i \in found
      BY DEF Live, InWindow
    <3>2. ads[i].placement \in placements
      BY <3>1
    <3>3. pick[ads[i].placement] \in Nat
      BY <3>2, <2>2, <1>0
    <3> QED
      BY <2>1, <3>2, <3>3, AdsAssumption
  <2> QED
    BY <2>5, <2>6, <2>8 DEF Right
<1> QED
  BY <1>1, <1>2

-----------------------------------------------------------------------------
\* The invariant holds initially.
LEMMA AdsInitInv == AdsInit => AdsInv
<1> SUFFICES ASSUME AdsInit PROVE AdsInv
  OBVIOUS
<1>1. AdsTypeOK
  <2>0. <<>> \in Seq(Ad)
    OBVIOUS
  <2>1. clock \in Nat /\ edits \in Nat /\ ads \in Seq(Ad) /\ indexed \in BOOLEAN
    BY <2>0 DEF AdsInit
  <2>2. start \in [Process -> [at : {"index", "count", "seed", "ready"}, left : SUBSET SeedAds]]
    BY DEF AdsInit
  <2>3. /\ cache \in [Process -> {Null} \cup [pick : Pick, since : Nat]]
        /\ reading \in [Client -> {Null} \cup [process : Process, now : Nat, pick : Pick \cup {Null}]]
        /\ answer \in {Null} \cup [asked : Nat, failed : BOOLEAN, pick : Pick]
    BY DEF AdsInit
  <2> QED
    BY <2>1, <2>2, <2>3 DEF AdsTypeOK
<1>2. CacheRight /\ ReadsBegun /\ AnswerRight
  BY DEF AdsInit, CacheRight, ReadsBegun, AnswerRight
<1>3. SeededOnce
  BY DEF AdsInit, SeededOnce
<1> QED
  BY <1>1, <1>2, <1>3 DEF AdsInv

\* An ad that is stored is an ad, and carries the present time.
LEMMA StoredIsAd ==
    ASSUME AdsTypeOK, NEW ad \in Ad
    PROVE  /\ Stored(ad) \in Ad /\ Stored(ad).changed = clock
           /\ Stored(ad).placement = ad.placement /\ Stored(ad).name = ad.name
           /\ Stored(ad).startDate = ad.startDate /\ Stored(ad).endDate = ad.endDate
           /\ Stored(ad).gone = ad.gone
BY DEF Stored, Ad, AdsTypeOK

\* The collection after one of its ads was replaced by another, and after one was added.
LEMMA Replaced ==
    ASSUME AdsTypeOK, NEW i \in DOMAIN ads, NEW ad \in Ad
    PROVE  /\ [ads EXCEPT ![i] = ad] \in Seq(Ad)
           /\ DOMAIN [ads EXCEPT ![i] = ad] = DOMAIN ads
           /\ [ads EXCEPT ![i] = ad][i] = ad
           /\ \A j \in DOMAIN ads \ {i} : [ads EXCEPT ![i] = ad][j] = ads[j]
BY DEF AdsTypeOK
LEMMA Added ==
    ASSUME AdsTypeOK, NEW ad \in Ad
    PROVE  /\ Append(ads, ad) \in Seq(Ad)
           /\ DOMAIN Append(ads, ad) = DOMAIN ads \cup {Len(ads) + 1}
           /\ Len(ads) + 1 \notin DOMAIN ads
           /\ Append(ads, ad)[Len(ads) + 1] = ad
           /\ \A j \in DOMAIN ads : Append(ads, ad)[j] = ads[j]
BY DEF AdsTypeOK

\* What ops do to the collection, and what a starting process may add to it.
LEMMA EditCases ==
    ASSUME AdsTypeOK, Edit
    PROVE  \/ \E ad \in Ad : /\ ~Refused(ad) /\ ad.changed = clock
                             /\ ads' = Append(ads, ad)
           \/ \E i \in DOMAIN ads, ad \in Ad :
                 /\ ~ads[i].gone /\ ad.changed = clock
                 /\ ad.placement = ads[i].placement /\ ad.name = ads[i].name
                 /\ ad.startDate = ads[i].startDate /\ ad.endDate = ads[i].endDate
                 /\ ads' = [ads EXCEPT ![i] = ad]
<1>0. \A i \in DOMAIN ads : ads[i] \in Ad
  BY DEF AdsTypeOK
<1>1. CASE \E ad \in OwnAds : ~Refused(ad) /\ ads' = Append(ads, Stored(ad))
  <2>1. PICK ad \in OwnAds : ~Refused(ad) /\ ads' = Append(ads, Stored(ad))
    BY <1>1
  <2>2. Stored(ad) \in Ad /\ Stored(ad).changed = clock /\ ~Refused(Stored(ad))
    BY <2>1, StoredIsAd, AdsAssumption DEF Refused, Taken
  <2> QED
    BY <2>1, <2>2
<1>2. ASSUME NEW i \in Present, NEW ad \in Ad, ads' = [ads EXCEPT ![i] = Stored(ad)],
             ad.placement = ads[i].placement, ad.name = ads[i].name,
             ad.startDate = ads[i].startDate, ad.endDate = ads[i].endDate
      PROVE  \E j \in DOMAIN ads, x \in Ad :
                /\ ~ads[j].gone /\ x.changed = clock
                /\ x.placement = ads[j].placement /\ x.name = ads[j].name
                /\ x.startDate = ads[j].startDate /\ x.endDate = ads[j].endDate
                /\ ads' = [ads EXCEPT ![j] = x]
  <2>1. i \in DOMAIN ads /\ ~ads[i].gone
    BY <1>2 DEF Present
  <2>2. /\ Stored(ad) \in Ad /\ Stored(ad).changed = clock
        /\ Stored(ad).placement = ads[i].placement /\ Stored(ad).name = ads[i].name
        /\ Stored(ad).startDate = ads[i].startDate /\ Stored(ad).endDate = ads[i].endDate
    BY <1>2, StoredIsAd
  <2> DEFINE x == Stored(ad)
  <2> HIDE DEF x
  <2> QED
    BY <1>2, <2>1, <2>2 DEF x
<1>3. CASE \E i \in Present :
              ads' = [ads EXCEPT ![i] = Stored([@ EXCEPT !.enabled = ~ads[i].enabled])]
  <2>1. PICK i \in Present :
              ads' = [ads EXCEPT ![i] = Stored([@ EXCEPT !.enabled = ~ads[i].enabled])]
    BY <1>3
  <2> DEFINE ad == [ads[i] EXCEPT !.enabled = ~ads[i].enabled]
  <2>2. ads[i] \in Ad
    BY <1>0 DEF Present
  <2>3. /\ ad \in Ad /\ ad.placement = ads[i].placement /\ ad.name = ads[i].name
        /\ ad.startDate = ads[i].startDate /\ ad.endDate = ads[i].endDate
    BY <2>2 DEF Ad
  <2>4. ads' = [ads EXCEPT ![i] = Stored(ad)]
    BY <2>1
  <2> HIDE DEF ad
  <2> QED
    BY <1>2, <2>3, <2>4
<1>4. CASE \E i \in Present : ads' = [ads EXCEPT ![i] = Stored([@ EXCEPT !.gone = TRUE])]
  <2>1. PICK i \in Present : ads' = [ads EXCEPT ![i] = Stored([@ EXCEPT !.gone = TRUE])]
    BY <1>4
  <2> DEFINE ad == [ads[i] EXCEPT !.gone = TRUE]
  <2>2. ads[i] \in Ad
    BY <1>0 DEF Present
  <2>3. /\ ad \in Ad /\ ad.placement = ads[i].placement /\ ad.name = ads[i].name
        /\ ad.startDate = ads[i].startDate /\ ad.endDate = ads[i].endDate
    BY <2>2 DEF Ad
  <2>4. ads' = [ads EXCEPT ![i] = Stored(ad)]
    BY <2>1
  <2> HIDE DEF ad
  <2> QED
    BY <1>2, <2>3, <2>4
<1> QED
  BY <1>1, <1>3, <1>4 DEF Edit
LEMMA SeedCases ==
    ASSUME AdsTypeOK, NEW p \in Process, InsertSeed(p)
    PROVE  \/ ads' = ads
           \/ \E ad \in Ad : ~Refused(ad) /\ ad.changed = clock /\ ads' = Append(ads, ad)
<1>1. CASE start[p].left = {}
  BY <1>1 DEF InsertSeed
<1>2. CASE start[p].left # {}
  <2>1. PICK ad \in start[p].left :
           ads' = IF Refused(ad) THEN ads ELSE Append(ads, Stored(ad))
    BY <1>2 DEF InsertSeed
  <2>2. ad \in Ad
    BY AdsAssumption DEF AdsTypeOK
  <2>3. Stored(ad) \in Ad /\ Stored(ad).changed = clock /\ (~Refused(ad) => ~Refused(Stored(ad)))
    BY <2>2, StoredIsAd DEF Refused, Taken
  <2> QED
    BY <2>1, <2>3
<1> QED
  BY <1>1, <1>2

\* Every step keeps the types.
LEMMA TypeStep == ASSUME AdsInv, [AdsNext]_adsVars PROVE AdsTypeOK'
<1> USE DEF AdsTypeOK
<1>0. AdsTypeOK
  BY DEF AdsInv
<1>1. CASE Tick
  BY <1>0, <1>1 DEF Tick
<1>2. CASE Edit
  <2>1. ads' \in Seq(Ad)
    <3>1. CASE \E ad \in Ad : ads' = Append(ads, ad)
      <4>1. PICK ad \in Ad : ads' = Append(ads, ad)
        BY <3>1
      <4> QED
        BY <1>0, <4>1, Added
    <3>2. CASE \E i \in DOMAIN ads, ad \in Ad : ads' = [ads EXCEPT ![i] = ad]
      <4>1. PICK i \in DOMAIN ads, ad \in Ad : ads' = [ads EXCEPT ![i] = ad]
        BY <3>2
      <4> QED
        BY <1>0, <4>1, Replaced
    <3> QED
      BY <1>0, <1>2, <3>1, <3>2, EditCases
  <2> QED
    BY <1>0, <1>2, <2>1 DEF Edit
<1>3. ASSUME NEW p \in Process, EnsureIndexes(p) PROVE AdsTypeOK'
  <2>1. start' \in [Process -> [at : {"index", "count", "seed", "ready"}, left : SUBSET SeedAds]]
    <3>1. PICK state \in {"count", "ready"} : At(p, state, {})
      BY <1>3 DEF EnsureIndexes
    <3> QED
      BY <1>0, <3>1 DEF At
  <2> QED
    BY <1>0, <1>3, <2>1 DEF EnsureIndexes
<1>4. ASSUME NEW p \in Process, SeedIfEmpty(p) PROVE AdsTypeOK'
  BY <1>0, <1>4 DEF SeedIfEmpty, At
<1>5. ASSUME NEW p \in Process, InsertSeed(p) PROVE AdsTypeOK'
  <2>1. ads' \in Seq(Ad)
    BY <1>0, <1>5, SeedCases, Added
  <2>2. start' \in [Process -> [at : {"index", "count", "seed", "ready"}, left : SUBSET SeedAds]]
    <3>1. start[p] \in [at : {"index", "count", "seed", "ready"}, left : SUBSET SeedAds]
      BY <1>0
    <3>2. PICK state \in {"seed", "ready"}, left \in SUBSET SeedAds : At(p, state, left)
      BY <1>5, <3>1 DEF InsertSeed
    <3> QED
      BY <1>0, <3>2 DEF At
  <2> QED
    BY <1>0, <1>5, <2>1, <2>2 DEF InsertSeed
<1>6. ASSUME NEW p \in Process, Restart(p) PROVE AdsTypeOK'
  BY <1>0, <1>6 DEF Restart, At
<1>7. ASSUME NEW c \in Client, NEW p \in Process, AskAds(c, p) PROVE AdsTypeOK'
  <2>1. CASE Fresh(p, clock)
    <3>1. cache[p].pick \in Pick
      BY <1>0, <2>1 DEF Fresh
    <3>2. answer' \in [asked : Nat, failed : BOOLEAN, pick : Pick]
      <4>1. answer' = [asked |-> clock, failed |-> FALSE, pick |-> cache[p].pick]
        BY <1>7, <2>1 DEF AskAds, Respond
      <4> QED
        BY <1>0, <3>1, <4>1
    <3>3. UNCHANGED <<clock, edits, ads, indexed, start, cache, reading>>
      BY <1>7, <2>1 DEF AskAds
    <3> QED
      BY <1>0, <3>2, <3>3
  <2>2. CASE ~Fresh(p, clock)
    <3>1. reading' = [reading EXCEPT ![c] = [process |-> p, now |-> clock, pick |-> Null]]
      BY <1>7, <2>2 DEF AskAds
    <3>2. reading' \in [Client -> {Null} \cup [process : Process, now : Nat, pick : Pick \cup {Null}]]
      BY <1>0, <3>1
    <3>3. UNCHANGED <<clock, edits, ads, indexed, start, cache, answer>>
      BY <1>7, <2>2 DEF AskAds
    <3> QED
      BY <1>0, <3>2, <3>3
  <2> QED
    BY <2>1, <2>2
<1>8. ASSUME NEW c \in Client, Keep(c) PROVE AdsTypeOK'
  <2>1. reading[c] \in [process : Process, now : Nat, pick : Pick]
    BY <1>0, <1>8 DEF Keep
  <2>2. /\ cache' = [cache EXCEPT ![reading[c].process] =
                        [pick |-> reading[c].pick, since |-> reading[c].now]]
        /\ answer' = [asked |-> reading[c].now, failed |-> FALSE, pick |-> reading[c].pick]
        /\ reading' = [reading EXCEPT ![c] = Null]
    BY <1>8 DEF Keep, Respond, SinceAsked
  <2> QED
    BY <1>0, <1>8, <2>1, <2>2 DEF Keep
<1>9. ASSUME NEW c \in Client, ReadFails(c) PROVE AdsTypeOK'
  <2>1. FALLBACK_PLACEMENTS \in Pick
    <3>1. FALLBACK_PLACEMENTS \in [Placement -> Nat \cup {Null}]
      BY DEF FALLBACK_PLACEMENTS
    <3> QED
      BY <3>1 DEF Pick
  <2> QED
    BY <1>0, <1>9, <2>1 DEF ReadFails, Respond
<1>10. CASE UNCHANGED adsVars
  BY <1>0, <1>10 DEF adsVars
<1>11. ASSUME NEW c \in Client, FindAds(c) PROVE AdsTypeOK'
  <2>1. reading[c] \in [process : Process, now : Nat, pick : Pick \cup {Null}]
        /\ reading[c].now <= clock
    BY <1>0, <1>11 DEF FindAds, AdsInv, ReadsBegun
  <2>2. PICK pick \in Picks({i \in DOMAIN ads : Live(ads[i], reading[c].now)}) :
           reading' = [reading EXCEPT ![c].pick = pick]
    BY <1>11 DEF FindAds
  <2>3. pick \in Pick
    BY <1>0, <2>1, <2>2, PickRight
  <2>4. [reading[c] EXCEPT !.pick = pick] \in
           [process : Process, now : Nat, pick : Pick \cup {Null}]
    BY <2>1, <2>3
  <2>5. reading' \in [Client -> {Null} \cup [process : Process, now : Nat, pick : Pick \cup {Null}]]
    BY <1>0, <2>2, <2>4
  <2> QED
    BY <1>0, <1>11, <2>5 DEF FindAds
<1> QED
  BY <1>1, <1>2, <1>3, <1>4, <1>5, <1>6, <1>7, <1>8, <1>9, <1>10, <1>11 DEF AdsNext

\* Every step leaves the collection as Switched says.
LEMMA SwitchedStep == ASSUME AdsInv, AdsTypeOK', [AdsNext]_adsVars PROVE Switched
<1>0. AdsTypeOK /\ clock \in Nat /\ clock' \in Nat
  BY DEF AdsInv, AdsTypeOK
<1>1. clock' = clock \/ (clock' = clock + 1 /\ ads' = ads)
  BY DEF AdsNext, adsVars, Tick, Edit, EnsureIndexes, SeedIfEmpty, InsertSeed, Restart, AskAds,
         FindAds, Keep, ReadFails
<1>2. CASE ads' = ads
  BY <1>0, <1>1, <1>2 DEF Switched
<1>3. ASSUME NEW ad \in Ad, ad.changed = clock, ads' = Append(ads, ad), clock' = clock
      PROVE  Switched
  BY <1>0, <1>3, Added DEF Switched
<1>4. ASSUME NEW i \in DOMAIN ads, NEW ad \in Ad, ad.changed = clock,
             ad.placement = ads[i].placement,
             ad.startDate = ads[i].startDate, ad.endDate = ads[i].endDate,
             ads' = [ads EXCEPT ![i] = ad], clock' = clock
      PROVE  Switched
  BY <1>0, <1>4, Replaced DEF Switched
<1>5. CASE Edit
  <2>1. clock' = clock
    BY <1>5 DEF Edit
  <2> QED
    BY <1>0, <1>3, <1>4, <1>5, <2>1, EditCases
<1>6. ASSUME NEW p \in Process, InsertSeed(p) PROVE Switched
  <2>1. clock' = clock
    BY <1>6 DEF InsertSeed
  <2> QED
    BY <1>0, <1>2, <1>3, <1>6, <2>1, SeedCases
<1>7. CASE ~Edit /\ ~(\E p \in Process : InsertSeed(p))
  <2>1. ads' = ads
    BY <1>7 DEF AdsNext, adsVars, Tick, EnsureIndexes, SeedIfEmpty, Restart, AskAds,
                FindAds, Keep, ReadFails
  <2> QED
    BY <1>2, <2>1
<1> QED
  BY <1>5, <1>6, <1>7

\* The unique index, once there, is never broken.
LEMMA SeededStep == ASSUME AdsInv, AdsTypeOK', [AdsNext]_adsVars PROVE SeededOnce'
<1>0. AdsTypeOK /\ SeededOnce /\ \A i \in DOMAIN ads : ads[i] \in Ad
  BY DEF AdsInv, AdsTypeOK
<1>1. CASE ads' = ads
  <2>1. Unique' = Unique
    BY <1>1 DEF Unique, Present
  <2>2. indexed' = indexed \/ indexed \/ Unique
    BY DEF AdsNext, adsVars, Tick, Edit, EnsureIndexes, SeedIfEmpty, InsertSeed, Restart, AskAds,
           FindAds, Keep, ReadFails
  <2> QED
    BY <1>0, <2>1, <2>2 DEF SeededOnce
<1>2. ASSUME NEW ad \in Ad, ~Refused(ad), ads' = Append(ads, ad), indexed' = indexed
      PROVE  SeededOnce'
  <2> SUFFICES ASSUME indexed PROVE Unique'
    BY <1>2 DEF SeededOnce
  <2>1. Unique /\ \A i \in Present : ~(ads[i].placement = ad.placement /\ ads[i].name = ad.name)
    BY <1>0, <1>2 DEF SeededOnce, Refused, Taken
  <2>2. \A i \in Present' : i = Len(ads) + 1 \/ i \in Present
    BY <1>0, <1>2, Added DEF Present
  <2>3. /\ ads'[Len(ads) + 1] = ad
        /\ \A i \in Present : ads'[i] = ads[i]
    BY <1>0, <1>2, Added DEF Present
  <2> QED
    BY <2>1, <2>2, <2>3 DEF Unique
<1>3. ASSUME NEW k \in DOMAIN ads, NEW ad \in Ad, ~ads[k].gone,
             ad.placement = ads[k].placement, ad.name = ads[k].name,
             ads' = [ads EXCEPT ![k] = ad], indexed' = indexed
      PROVE  SeededOnce'
  <2> SUFFICES ASSUME indexed PROVE Unique'
    BY <1>3 DEF SeededOnce
  <2>1. Unique
    BY <1>0 DEF SeededOnce
  <2>2. \A i \in Present' : /\ i \in Present
                            /\ ads'[i].placement = ads[i].placement
                            /\ ads'[i].name = ads[i].name
    BY <1>0, <1>3, Replaced DEF Present
  <2> QED
    BY <2>1, <2>2 DEF Unique
<1>4. CASE Edit
  <2>1. indexed' = indexed
    BY <1>4 DEF Edit
  <2> QED
    BY <1>0, <1>2, <1>3, <1>4, <2>1, EditCases
<1>5. ASSUME NEW p \in Process, InsertSeed(p) PROVE SeededOnce'
  <2>1. indexed' = indexed
    BY <1>5 DEF InsertSeed
  <2> QED
    BY <1>0, <1>1, <1>2, <1>5, <2>1, SeedCases
<1>6. CASE ~Edit /\ ~(\E p \in Process : InsertSeed(p))
  <2>1. ads' = ads
    BY <1>6 DEF AdsNext, adsVars, Tick, EnsureIndexes, SeedIfEmpty, Restart, AskAds,
                FindAds, Keep, ReadFails
  <2> QED
    BY <1>1, <2>1
<1> QED
  BY <1>4, <1>5, <1>6

\* What is kept is right for the time it is kept with.
LEMMA CacheStep == ASSUME AdsInv, AdsTypeOK', Switched, [AdsNext]_adsVars PROVE CacheRight'
<1>0. AdsTypeOK /\ CacheRight /\ ReadsBegun
  BY DEF AdsInv
<1> SUFFICES ASSUME NEW p \in Process, cache'[p] # Null,
                    NEW pick, pick = cache'[p].pick, NEW t, t = cache'[p].since
             PROVE  Right(pick, t)'
  BY DEF CacheRight, Right, On, Filled
<1>1. CASE cache'[p] = cache[p]
  <2>1. Right(pick, t)
    BY <1>0, <1>1 DEF CacheRight
  <2> QED
    BY <1>0, <2>1, StaysRight
<1>2. ASSUME NEW c \in Client, Keep(c), cache'[p] # cache[p] PROVE Right(pick, t)'
  <2>1. Right(reading[c].pick, reading[c].now)
    BY <1>0, <1>2 DEF Keep, ReadsBegun
  <2>2. cache' = [cache EXCEPT ![reading[c].process] =
                    [pick |-> reading[c].pick, since |-> reading[c].now]]
    BY <1>2 DEF Keep, SinceAsked
  <2>3. pick = reading[c].pick /\ t = reading[c].now
    BY <1>0, <1>2, <2>2 DEF AdsTypeOK
  <2>4. Right(pick, t)
    BY <2>1, <2>3
  <2> QED
    BY <1>0, <2>4, StaysRight
<1>3. ASSUME NEW q \in Process, Restart(q) PROVE cache'[p] = cache[p]
  BY <1>0, <1>3 DEF Restart, AdsTypeOK
<1>4. CASE ~(\E c \in Client : Keep(c)) /\ ~(\E q \in Process : Restart(q))
  <2>1. cache' = cache
    BY <1>4 DEF AdsNext, adsVars, Tick, Edit, EnsureIndexes, SeedIfEmpty, InsertSeed, AskAds, FindAds,
                ReadFails
  <2> QED
    BY <1>1, <2>1
<1> QED
  BY <1>1, <1>2, <1>3, <1>4

\* Every read was asked for no later than now, and what it found is right for then,
\* however long its answer is under way.
LEMMA ReadsStep == ASSUME AdsInv, AdsTypeOK', Switched, [AdsNext]_adsVars PROVE ReadsBegun'
<1>0. AdsTypeOK /\ ReadsBegun
  BY DEF AdsInv
<1> SUFFICES ASSUME NEW c \in Client, reading'[c] # Null,
                    NEW t, t = reading'[c].now, NEW pick, pick = reading'[c].pick
             PROVE  t <= clock' /\ (pick # Null => Right(pick, t)')
  BY DEF ReadsBegun, Right, On, Filled
<1>1. clock \in Nat /\ clock' \in Nat /\ clock <= clock'
  BY <1>0 DEF AdsTypeOK, Switched
<1>2. CASE reading'[c] = reading[c]
  <2>1. t \in Nat /\ t <= clock /\ (pick # Null => Right(pick, t))
    BY <1>0, <1>2 DEF ReadsBegun, AdsTypeOK
  <2> QED
    BY <1>0, <1>1, <2>1, StaysRight
<1>3. ASSUME NEW d \in Client, NEW p \in Process, AskAds(d, p), reading'[c] # reading[c]
      PROVE  t <= clock' /\ pick = Null
  <2>1. reading' = [reading EXCEPT ![d] = [process |-> p, now |-> clock, pick |-> Null]]
    BY <1>3 DEF AskAds
  <2>2. reading'[c] = [process |-> p, now |-> clock, pick |-> Null]
    BY <1>0, <1>3, <2>1 DEF AdsTypeOK
  <2> QED
    BY <1>1, <2>2
<1>4. ASSUME NEW d \in Client, Keep(d) \/ ReadFails(d) PROVE reading'[c] = reading[c]
  BY <1>0, <1>4 DEF Keep, ReadFails, AdsTypeOK
<1>5. ASSUME NEW p \in Process, Restart(p) PROVE reading'[c] = reading[c]
  BY <1>5 DEF Restart
<1>6. CASE ~(\E d \in Client : \/ \E p \in Process : AskAds(d, p)
                               \/ FindAds(d) \/ Keep(d) \/ ReadFails(d))
           /\ ~(\E p \in Process : Restart(p))
  <2>1. reading' = reading
    BY <1>6 DEF AdsNext, adsVars, Tick, Edit, EnsureIndexes, SeedIfEmpty, InsertSeed
  <2> QED
    BY <1>2, <2>1
<1>7. ASSUME NEW d \in Client, FindAds(d), reading'[c] # reading[c]
      PROVE  t <= clock' /\ Right(pick, t)'
  <2>1. PICK x \in Picks({i \in DOMAIN ads : Live(ads[i], reading[d].now)}) :
           reading' = [reading EXCEPT ![d].pick = x]
    BY <1>7 DEF FindAds
  <2>2. reading[d].now \in Nat /\ reading[d].now <= clock
    BY <1>0, <1>7 DEF FindAds, AdsTypeOK, ReadsBegun
  <2>3. Right(x, reading[d].now)
    BY <1>0, <2>1, <2>2, PickRight
  <2>4. t = reading[d].now /\ pick = x
    <3>1. c = d
      BY <1>0, <1>7, <2>1 DEF AdsTypeOK
    <3>2. reading[d] \in [process : Process, now : Nat, pick : Pick \cup {Null}]
      BY <1>0, <1>7 DEF FindAds, AdsTypeOK
    <3>3. reading'[c] = [reading[d] EXCEPT !.pick = x]
      BY <1>0, <2>1, <3>1 DEF AdsTypeOK
    <3> QED
      BY <3>2, <3>3
  <2> QED
    BY <1>0, <1>1, <2>2, <2>3, <2>4, StaysRight
<1> QED
  BY <1>2, <1>3, <1>4, <1>5, <1>6, <1>7

\* The last answer is right for a time within its minute.
LEMMA AnswerStep ==
    ASSUME AdsInv, AdsTypeOK', Switched, [AdsNext]_adsVars PROVE AnswerRight'
<1>0. AdsTypeOK /\ CacheRight /\ ReadsBegun /\ AnswerRight
  BY DEF AdsInv
<1> SUFFICES ASSUME answer' # Null, ~answer'.failed,
                    NEW pick, pick = answer'.pick, NEW begun, begun = answer'.asked
             PROVE  \E t \in Within(begun) : Right(pick, t)'
  BY DEF AnswerRight, Right, On, Filled
<1>1. SUFFICES \E t \in Within(begun) : Right(pick, t)
  <2>1. PICK t \in Within(begun) : Right(pick, t)
    BY <1>1
  <2> QED
    BY <1>0, <2>1, StaysRight
<1>2. CASE answer' = answer
  BY <1>0, <1>2 DEF AnswerRight
<1>3. ASSUME NEW c \in Client, NEW p \in Process, AskAds(c, p), Fresh(p, clock)
      PROVE  \E t \in Within(begun) : Right(pick, t)
  <2>1. answer' = [asked |-> clock, failed |-> FALSE, pick |-> cache[p].pick]
    BY <1>3 DEF AskAds, Respond
  <2>2. cache[p] # Null /\ clock - cache[p].since < CacheTtl
    BY <1>3 DEF Fresh
  <2>3. Right(cache[p].pick, cache[p].since)
    BY <1>0, <2>2 DEF CacheRight
  <2>4. cache[p].since \in Within(clock)
    BY <1>0, <2>2, <2>3, AdsAssumption DEF Right, Within, AdsTypeOK
  <2> QED
    BY <2>1, <2>3, <2>4
<1>4. ASSUME NEW c \in Client, Keep(c) PROVE \E t \in Within(begun) : Right(pick, t)
  <2>1. reading[c].now \in Nat /\ Right(reading[c].pick, reading[c].now)
    BY <1>0, <1>4 DEF Keep, AdsTypeOK, ReadsBegun
  <2>2. answer' = [asked |-> reading[c].now, failed |-> FALSE, pick |-> reading[c].pick]
    BY <1>4 DEF Keep, Respond
  <2>3. pick = reading[c].pick /\ begun = reading[c].now
    BY <2>2
  <2>4. Right(pick, begun)
    BY <2>1, <2>3
  <2>5. begun \in Within(begun)
    BY <2>1, <2>3, AdsAssumption DEF Within
  <2> QED
    BY <2>4, <2>5
<1>5. ASSUME NEW c \in Client, ReadFails(c) PROVE FALSE
  BY <1>5 DEF ReadFails, Respond
<1>6. CASE ~(\E c \in Client : \/ \E p \in Process : AskAds(c, p) /\ Fresh(p, clock)
                               \/ Keep(c) \/ ReadFails(c))
  <2>1. answer' = answer
    BY <1>6 DEF AdsNext, adsVars, Tick, Edit, EnsureIndexes, SeedIfEmpty, InsertSeed, Restart, AskAds,
                FindAds
  <2> QED
    BY <1>2, <2>1
<1> QED
  BY <1>3, <1>4, <1>5, <1>6

-----------------------------------------------------------------------------
\* What is right for a time within the minute is what the minute promises.
LEMMA Promised == ASSUME AdsInv PROVE AdsAsSwitched
<1>0. AdsTypeOK /\ AnswerRight /\ SeededOnce
  BY DEF AdsInv
<1> SUFFICES ASSUME answer # Null, ~answer.failed PROVE AdsOfTheMinute
  BY <1>0 DEF AdsAsSwitched, AdsOfTheMinute
<1>1. PICK t \in Within(answer.asked) : Right(answer.pick, t)
  BY <1>0 DEF AnswerRight
<1>2. /\ answer.asked \in Nat /\ t \in Int /\ CacheTtl \in Nat
      /\ answer.asked - CacheTtl + 1 <= t /\ t <= answer.asked
      /\ \A i \in DOMAIN ads : ads[i] \in Ad /\ ads[i].changed \in Nat
  <2>1. answer.asked \in Nat /\ CacheTtl \in Nat
    BY <1>0, AdsAssumption DEF AdsTypeOK
  <2>2. \A i \in DOMAIN ads : ads[i] \in Ad
    BY <1>0 DEF AdsTypeOK
  <2>3. \A i \in DOMAIN ads : ads[i].changed \in Nat
    BY <2>2 DEF Ad
  <2> QED
    BY <1>1, <2>1, <2>2, <2>3 DEF Within
<1> DEFINE shown == Shown(answer.pick)
<1>3. ASSUME NEW p \in DOMAIN answer.pick, answer.pick[p] # Null
      PROVE  WasOn(answer.pick[p], p, answer.asked)
  <2>1. /\ answer.pick[p] \in DOMAIN ads
        /\ ads[answer.pick[p]].placement = p
        /\ \/ ads[answer.pick[p]].enabled /\ ~ads[answer.pick[p]].gone
           \/ ads[answer.pick[p]].changed >= t
        /\ InWindow(ads[answer.pick[p]], t)
    BY <1>1, <1>3 DEF Right, On
  <2> QED
    BY <1>1, <1>2, <2>1 DEF WasOn
<1>4. \A p \in DOMAIN shown : shown[p] # Null => WasOn(shown[p], p, answer.asked)
  BY <1>3 DEF Shown
<1>5. \A p \in Placement : \A e \in Recorded(answer.pick, p) :
         e.adId # Null => WasOn(e.adId, e.placement, answer.asked)
  BY <1>3 DEF Recorded
<1>6. ASSUME NEW i \in DOMAIN ads, OnThroughout(ads[i], answer.asked)
      PROVE  ads[i].placement \in DOMAIN shown /\ shown[ads[i].placement] # Null
  <2>1. /\ ads[i].enabled /\ ~ads[i].gone /\ ads[i].changed < t
        /\ InWindow(ads[i], t)
    BY <1>1, <1>2, <1>6 DEF OnThroughout
  <2>2. /\ answer.pick # FALLBACK_PLACEMENTS
        /\ ads[i].placement \in DOMAIN answer.pick
        /\ answer.pick[ads[i].placement] # Null
    BY <1>1, <2>1 DEF Right, Filled
  <2> QED
    BY <2>2 DEF Shown
<1> QED
  BY <1>4, <1>5, <1>6 DEF AdsOfTheMinute

\* The invariant holds in every state.
LEMMA AdsAlwaysInv == AdsSpec => []AdsInv
<1>1. AdsInit => AdsInv
  BY AdsInitInv
<1>2. AdsInv /\ [AdsNext]_adsVars => AdsInv'
  BY TypeStep, SwitchedStep, SeededStep, CacheStep, ReadsStep, AnswerStep DEF AdsInv
<1> QED
  BY <1>1, <1>2, PTL DEF AdsSpec

\* Whatever ops switch and whatever reads overlap, a client gets the ads of the last
\* minute (getPlacements), and processes that start together fill the collection once.
THEOREM AdsHold == AdsSpec => []AdsAsSwitched
<1>1. AdsInv => AdsAsSwitched
  BY Promised
<1> QED
  BY <1>1, AdsAlwaysInv, PTL


-----------------------------------------------------------------------------
(* The import of places and the window *)

(* The importer *)

RunRecord ==
    [pc : {"dry", "diff", "write", "delete", "ensure", "done", "failed"}, sheet : Sheet,
     delete : BOOLEAN, orphans : SUBSET Place, changed : SUBSET Place, others : SUBSET Place]

\* What others left alone is gone, unless the run had found it and has yet to
\* delete it, and is as the sheet says, unless the run has yet to write it.
Removing(rec, at) ==
    \A p \in Place : p \notin DOMAIN rec.sheet /\ p \notin rec.others =>
        p \in rec.orphans \/ at[p] = Null
Writing(rec, at) ==
    \A p \in DOMAIN rec.sheet : p \notin rec.others =>
        p \in rec.changed \/ at[p] = rec.sheet[p]
Good(rec, at) ==
    rec.pc # "idle" =>
        /\ rec \in RunRecord
        /\ rec.changed \subseteq DOMAIN rec.sheet
        /\ rec.orphans \cap DOMAIN rec.sheet = {}
        /\ Removing(rec, at)
        /\ rec.pc \in {"write", "delete", "ensure", "done"} => Writing(rec, at)
        /\ rec.pc \in {"delete", "ensure", "done"} => rec.changed = {}
        /\ rec.pc \in {"ensure", "done"} /\ rec.delete => rec.orphans = {}

ImportsInv == DOMAIN imports = Run /\ \A r \in Run : Good(imports[r], places)
PlacesInv == /\ DOMAIN places = Place
             /\ \A p \in Place : places[p] # Null => IsContent(places[p])

(* The window *)

ActivationInv ==
    IF activation = Null THEN promised = Null
    ELSE /\ activation \in [enabled : BOOLEAN, from : Nat \cup {Null}, until : Nat \cup {Null}]
         /\ activation.enabled <=> promised # Null
         /\ promised # Null => /\ promised = [from |-> activation.from, until |-> activation.until]
                               /\ activation.from # Null /\ activation.from <= clock
CommandInv ==
    /\ DOMAIN command = Command
    /\ \A c \in Command :
          /\ command[c].pc \in {"open", "close"} => activation # Null
          /\ command[c].pc = "open" => /\ command[c].from \in Nat /\ command[c].from <= clock
                                       /\ command[c].until \in Nat \cup {Null}
WindowInv == clock \in Nat /\ ActivationInv /\ CommandInv

ImportInv == ImportsInv /\ PlacesInv /\ WindowInv

LEMMA ImportInitInv == Import!Init => ImportInv
  BY DEF Import!Init, Import!Idle, ImportInv, ImportsInv, Good, PlacesInv, WindowInv, ActivationInv, CommandInv

\* Two contents that differ in no field are the same.
LEMMA SameContent ==
  ASSUME NEW c, NEW d, IsContent(d), c # Null => IsContent(c), ~Import!Differs(c, d) PROVE c = d
<1>1. IsContent(c) /\ \A f \in Field : c[f] = d[f]
  BY DEF Import!Differs, Import!ComparedFields
<1>. QED  BY <1>1 DEF IsContent

\* What one run or a hand does to a place, the others have noted.
LEMMA NotedGood ==
  ASSUME NEW rec, NEW at, DOMAIN at = Place, Good(rec, at), rec.pc # "idle",
         NEW p \in Place, NEW c
  PROVE  Good([rec EXCEPT !.others = @ \cup {p}], [at EXCEPT ![p] = c])
<1>. DEFINE after == [rec EXCEPT !.others = @ \cup {p}]
<1>1. rec \in RunRecord
  BY DEF Good
<1>2. /\ after \in RunRecord
      /\ after.pc = rec.pc /\ after.sheet = rec.sheet /\ after.delete = rec.delete
      /\ after.orphans = rec.orphans /\ after.changed = rec.changed
      /\ after.others = rec.others \cup {p}
  BY <1>1 DEF RunRecord
<1>. HIDE DEF after
<1>3. Removing(after, [at EXCEPT ![p] = c])
  BY <1>2 DEF Good, Removing
<1>4. rec.pc \in {"write", "delete", "ensure", "done"} => Writing(after, [at EXCEPT ![p] = c])
  BY <1>2 DEF Good, Writing
<1>5. Good(after, [at EXCEPT ![p] = c])
  BY <1>2, <1>3, <1>4 DEF Good
<1>. QED  BY <1>5 DEF after

LEMMA TouchGood ==
  ASSUME ImportsInv, PlacesInv, NEW by, NEW p \in Place, NEW c, NEW q \in Run, q # by
  PROVE  Good(Import!Touch(by, p)[q], [places EXCEPT ![p] = c])
<1>1. CASE imports[q].pc = "idle"
  BY <1>1 DEF Import!Touch, Good
<1>2. CASE imports[q].pc # "idle"
  <2>1. Good(imports[q], places) /\ DOMAIN places = Place
    BY DEF ImportsInv, PlacesInv
  <2>2. Import!Touch(by, p)[q] = [imports[q] EXCEPT !.others = @ \cup {p}]
    BY <1>2, Zenon DEF Import!Touch
  <2>3. Good([imports[q] EXCEPT !.others = @ \cup {p}], [places EXCEPT ![p] = c])
    BY <1>2, <2>1, NotedGood, Zenon
  <2>. QED  BY <2>2, <2>3, Zenon
<1>. QED  BY <1>1, <1>2

\* A step of a run that writes no place need only keep its own record good.
LEMMA OwnStep ==
  ASSUME ImportsInv, NEW r \in Run, NEW rec, imports' = [imports EXCEPT ![r] = rec],
         UNCHANGED places, Good(rec, places)
  PROVE  ImportsInv'
  BY DEF ImportsInv, Good, Removing, Writing, RunRecord

LEMMA FindInv ==
  ASSUME ImportInv, NEW r \in Run, Import!FindOrphans(r) PROVE ImportsInv'
<1>1. PICK sheet \in Sheet, delete \in BOOLEAN, dry \in BOOLEAN :
        imports' = [imports EXCEPT ![r] =
                  [pc |-> IF dry THEN "dry" ELSE "diff", sheet |-> sheet, delete |-> delete,
                   orphans |-> Import!Stored \ DOMAIN sheet, changed |-> {}, others |-> {}]]
  BY DEF Import!FindOrphans
<1>. DEFINE rec == [pc |-> IF dry THEN "dry" ELSE "diff", sheet |-> sheet, delete |-> delete,
                    orphans |-> Import!Stored \ DOMAIN sheet, changed |-> {}, others |-> {}]
<1>2. Good(rec, places)
  BY DEF Good, RunRecord, Removing, Import!Stored
<1>. QED  BY <1>1, <1>2, OwnStep DEF Import!FindOrphans, ImportInv

LEMMA DiffInv == ASSUME ImportInv, NEW r \in Run, Import!Diff(r) PROVE ImportsInv'
<1>. DEFINE old == imports[r]
            changed == {p \in DOMAIN old.sheet : Import!Differs(places[p], old.sheet[p])}
            rec == [old EXCEPT !.pc = "write", !.changed = changed,
                               !.others = @ \ DOMAIN old.sheet]
<1>1. old.pc = "diff" /\ Good(old, places)
  BY DEF Import!Diff, ImportInv, ImportsInv
<1>2. old \in RunRecord /\ Removing(old, places) /\ old.orphans \cap DOMAIN old.sheet = {}
  BY <1>1 DEF Good
<1>3. imports' = [imports EXCEPT ![r] = rec]
  BY DEF Import!Diff
<1>4. changed \subseteq Place
  BY <1>2, ImportAssumption DEF RunRecord
<1>5. /\ rec \in RunRecord /\ rec.pc = "write" /\ rec.changed = changed
      /\ rec.sheet = old.sheet /\ rec.orphans = old.orphans
      /\ rec.others = old.others \ DOMAIN old.sheet
  BY <1>2, <1>4 DEF RunRecord
<1>6. Removing(rec, places)
  BY <1>2, <1>5 DEF Removing
<1>7. Writing(rec, places)
  <2>. SUFFICES ASSUME NEW p \in DOMAIN old.sheet, p \notin changed
                PROVE  places[p] = old.sheet[p]
    BY <1>5 DEF Writing
  <2>1. /\ IsContent(old.sheet[p]) /\ ~Import!Differs(places[p], old.sheet[p])
        /\ places[p] # Null => IsContent(places[p])
    BY <1>2, ImportAssumption DEF RunRecord, ImportInv, PlacesInv
  <2>. QED  BY <2>1, SameContent
<1>. HIDE DEF rec
<1>8. Good(rec, places)
  BY <1>2, <1>5, <1>6, <1>7 DEF Good
<1>. QED  BY <1>3, <1>8, OwnStep DEF Import!Diff, ImportInv

LEMMA UpsertInv ==
  ASSUME ImportInv, NEW r \in Run, NEW p \in Place, Import!Upsert(r, p)
  PROVE  ImportsInv' /\ PlacesInv'
<1>. DEFINE old == imports[r]
            rec == [old EXCEPT !.changed = @ \ {p}]
<1>1. Good(old, places) /\ old.pc = "write" /\ p \in old.changed
  BY DEF Import!Upsert, ImportInv, ImportsInv
<1>2. old \in RunRecord /\ p \in DOMAIN old.sheet /\ IsContent(old.sheet[p])
  BY <1>1, ImportAssumption DEF Good, RunRecord
<1>3. places' = [places EXCEPT ![p] = old.sheet[p]]
  BY DEF Import!Upsert
<1>4. imports' = [Import!Touch(r, p) EXCEPT ![r] = rec]
  BY <1>2 DEF Import!Upsert, Import!Touch, ImportInv, ImportsInv
<1>5. /\ rec \in RunRecord /\ rec.pc = "write" /\ rec.changed = old.changed \ {p}
      /\ rec.sheet = old.sheet /\ rec.orphans = old.orphans /\ rec.others = old.others
  BY <1>1, <1>2 DEF RunRecord
<1>. HIDE DEF rec
<1>6. Good(rec, places')
  BY <1>1, <1>2, <1>3, <1>5 DEF Good, Removing, Writing, ImportInv, PlacesInv
<1>7. ASSUME NEW q \in Run, q # r PROVE Good(imports'[q], places')
  <2>1. imports'[q] = Import!Touch(r, p)[q]
    BY <1>4, <1>7 DEF Import!Touch
  <2>. QED  BY <1>3, <1>7, <2>1, TouchGood DEF ImportInv
<1>8. DOMAIN imports' = Run /\ imports'[r] = rec
  BY <1>4 DEF Import!Touch
<1>9. PlacesInv'
  BY <1>2, <1>3 DEF ImportInv, PlacesInv, IsContent
<1>10. \A q \in Run : Good(imports'[q], places')
  BY <1>6, <1>7, <1>8
<1>. QED  BY <1>8, <1>9, <1>10 DEF ImportsInv, Good, Removing, Writing, RunRecord

LEMMA DeleteInv ==
  ASSUME ImportInv, NEW r \in Run, NEW p \in Place, Import!Delete(r, p)
  PROVE  ImportsInv' /\ PlacesInv'
<1>. DEFINE old == imports[r]
            rec == [old EXCEPT !.orphans = @ \ {p}]
<1>1. Good(old, places) /\ old.pc = "delete" /\ p \in old.orphans
  BY DEF Import!Delete, ImportInv, ImportsInv
<1>2. old \in RunRecord /\ p \notin DOMAIN old.sheet
  BY <1>1 DEF Good
<1>3. places' = [places EXCEPT ![p] = Null]
  BY DEF Import!Delete
<1>4. imports' = [Import!Touch(r, p) EXCEPT ![r] = rec]
  BY <1>2 DEF Import!Delete, Import!Touch, ImportInv, ImportsInv
<1>5. /\ rec \in RunRecord /\ rec.pc = "delete" /\ rec.orphans = old.orphans \ {p}
      /\ rec.sheet = old.sheet /\ rec.changed = old.changed /\ rec.others = old.others
  BY <1>1, <1>2 DEF RunRecord
<1>. HIDE DEF rec
<1>6. Good(rec, places')
  BY <1>1, <1>2, <1>3, <1>5 DEF Good, Removing, Writing, ImportInv, PlacesInv
<1>7. ASSUME NEW q \in Run, q # r PROVE Good(imports'[q], places')
  <2>1. imports'[q] = Import!Touch(r, p)[q]
    BY <1>4, <1>7 DEF Import!Touch
  <2>. QED  BY <1>3, <1>7, <2>1, TouchGood DEF ImportInv
<1>8. DOMAIN imports' = Run /\ imports'[r] = rec
  BY <1>4 DEF Import!Touch
<1>9. PlacesInv'
  BY <1>3 DEF ImportInv, PlacesInv, IsContent
<1>10. \A q \in Run : Good(imports'[q], places')
  BY <1>6, <1>7, <1>8
<1>. QED  BY <1>8, <1>9, <1>10 DEF ImportsInv, Good, Removing, Writing, RunRecord

LEMMA EditInv ==
  ASSUME ImportInv, NEW p \in Place, Import!EditByHand(p) PROVE ImportsInv' /\ PlacesInv'
<1>1. places' = [places EXCEPT ![p] = PlaceByHand] /\ imports' = Import!Touch(Null, p)
  BY DEF Import!EditByHand
<1>2. \A q \in Run : Good(imports'[q], places')
  BY <1>1, TouchGood, ImportAssumption DEF ImportInv
<1>3. PlacesInv'
  BY <1>1, ImportAssumption DEF ImportInv, PlacesInv, IsContent
<1>. QED  BY <1>1, <1>2, <1>3 DEF ImportsInv, Good, Removing, Writing, RunRecord, Import!Touch

\* The steps of a run that only move it on.
LEMMA MoveInv ==
  ASSUME ImportInv, NEW r \in Run, Import!Written(r) \/ Import!Deleted(r) \/ Import!Ensure(r) \/ Import!Abort(r) PROVE ImportsInv'
<1>. DEFINE old == imports[r]
<1>1. Good(old, places) /\ old.pc # "idle" /\ old \in RunRecord
  BY DEF Import!Written, Import!Deleted, Import!Ensure, Import!Abort, Good, ImportInv, ImportsInv
<1>2. PICK to \in {"delete", "ensure", "done", "failed"} :
        /\ imports' = [imports EXCEPT ![r] = [old EXCEPT !.pc = to]]
        /\ to = "delete" => old.pc = "write" /\ old.changed = {}
        /\ to = "ensure" => \/ old.pc = "write" /\ old.changed = {} /\ ~old.delete
                            \/ old.pc = "delete" /\ old.orphans = {}
        /\ to = "done" => old.pc = "ensure"
  BY DEF Import!Written, Import!Deleted, Import!Ensure, Import!Abort
<1>. DEFINE rec == [old EXCEPT !.pc = to]
<1>3. /\ rec \in RunRecord /\ rec.pc = to /\ rec.orphans = old.orphans
      /\ rec.sheet = old.sheet /\ rec.changed = old.changed /\ rec.others = old.others
      /\ rec.delete = old.delete
  BY <1>1 DEF RunRecord
<1>. HIDE DEF rec
<1>4. Good(rec, places)
  BY <1>1, <1>2, <1>3 DEF Good, Removing, Writing
<1>5. UNCHANGED places
  BY DEF Import!Written, Import!Deleted, Import!Ensure, Import!Abort
<1>6. imports' = [imports EXCEPT ![r] = rec]
  BY <1>2 DEF rec
<1>. QED  BY <1>4, <1>5, <1>6, OwnStep DEF ImportInv

LEMMA ImporterStep ==
  ASSUME ImportInv, [Import!Next]_Import!vars PROVE ImportsInv' /\ PlacesInv'
<1>1. CASE UNCHANGED <<places, imports>>
  BY <1>1 DEF ImportInv, ImportsInv, PlacesInv, Good, Removing, Writing, RunRecord, IsContent
<1>2. ASSUME NEW r \in Run, Import!FindOrphans(r) \/ Import!Diff(r) \/ Import!Written(r) \/ Import!Deleted(r)
                              \/ Import!Ensure(r) \/ Import!Abort(r)
      PROVE  ImportsInv' /\ PlacesInv'
  <2>1. UNCHANGED places
    BY <1>2 DEF Import!FindOrphans, Import!Diff, Import!Written, Import!Deleted, Import!Ensure, Import!Abort
  <2>2. PlacesInv'
    BY <2>1 DEF ImportInv, PlacesInv, IsContent
  <2>. QED  BY <1>2, <2>2, FindInv, DiffInv, MoveInv
<1>3. ASSUME NEW r \in Run, NEW p \in Place, Import!Upsert(r, p) \/ Import!Delete(r, p)
      PROVE  ImportsInv' /\ PlacesInv'
  BY <1>3, UpsertInv, DeleteInv
<1>4. ASSUME NEW p \in Place, Import!EditByHand(p) PROVE ImportsInv' /\ PlacesInv'
  BY <1>4, EditInv
<1>. QED
  BY <1>1, <1>2, <1>3, <1>4 DEF Import!Next, Import!Import, Import!Look, Import!Open, Import!Close, Import!Tick, Import!vars

LEMMA WindowStep ==
  ASSUME ImportInv, [Import!Next]_Import!vars PROVE WindowInv'
<1>. USE DEF ImportInv, WindowInv, ActivationInv, CommandInv
<1>1. CASE UNCHANGED <<activation, command, clock, promised>>
  BY <1>1
<1>2. ASSUME NEW r \in Run, Import!Ensure(r) PROVE WindowInv'
  BY <1>2 DEF Import!Ensure, Import!Ensured, Import!Disabled
<1>3. ASSUME NEW c \in Command, Import!Look(c) PROVE WindowInv'
  BY <1>3, ImportAssumption DEF Import!Look
<1>4. ASSUME NEW c \in Command, Import!Open(c) PROVE WindowInv'
  <2>. DEFINE from == command[c].from
              until == command[c].until
  <2>1. activation # Null /\ from \in Nat /\ from <= clock /\ until \in Nat \cup {Null}
    BY <1>4 DEF Import!Open
  <2>2. activation' = [enabled |-> TRUE, from |-> from, until |-> until]
    BY <1>4, <2>1 DEF Import!Open
  <2>3. promised' = [from |-> from, until |-> until] /\ UNCHANGED clock
    BY <1>4 DEF Import!Open
  <2>. HIDE DEF from, until
  <2>4. promised' # Null /\ activation' # Null /\ from # Null
    <3>1. promised' \in [from : Nat, until : Nat \cup {Null}]
      BY <2>1, <2>3
    <3>2. activation' \in [enabled : BOOLEAN, from : Nat \cup {Null}, until : Nat \cup {Null}]
      BY <2>1, <2>2
    <3>. QED  BY <2>1, <3>1, <3>2, ImportAssumption
  <2>5. ActivationInv'
    BY <2>1, <2>2, <2>3, <2>4
  <2>6. CommandInv'
    BY <1>4, <2>3, <2>4 DEF Import!Open
  <2>. QED  BY <1>4, <2>5, <2>6 DEF Import!Open
<1>5. ASSUME NEW c \in Command, Import!Close(c) PROVE WindowInv'
  <2>1. activation # Null
    BY <1>5 DEF Import!Close
  <2>2. activation' = [enabled |-> FALSE, from |-> activation.from, until |-> activation.until]
    BY <1>5, <2>1 DEF Import!Close
  <2>3. ActivationInv'
    BY <1>5, <2>1, <2>2 DEF Import!Close
  <2>4. CommandInv'
    BY <1>5, <2>2, ImportAssumption DEF Import!Close
  <2>. QED  BY <1>5, <2>3, <2>4 DEF Import!Close
<1>6. CASE Import!Tick
  BY <1>6 DEF Import!Tick
<1>. QED
  BY <1>1, <1>2, <1>3, <1>4, <1>5, <1>6
     DEF Import!Next, Import!Import, Import!FindOrphans, Import!Diff, Import!Written, Import!Deleted, Import!Abort, Import!Upsert, Import!Delete, Import!EditByHand, Import!vars

LEMMA LandsOfInv == ImportInv => Import!ImportLands
  BY DEF ImportInv, ImportsInv, Good, Removing, Writing, Import!ImportLands

LEMMA LiveOfInv == ASSUME ImportInv PROVE Import!LiveAsOpened
  BY ImportAssumption DEF ImportInv, WindowInv, ActivationInv, Import!LiveAsOpened, Import!IsLive

\* An import that reports success has brought the collection to its sheet, but for
\* what others wrote since it had looked, and the festival is on the map exactly when
\* the last window command says so: whatever the sheets, however many runs of the two
\* scripts and edits by hand, in any interleaving, dying anywhere.
THEOREM CommandsAlwaysLand == OpsSpec => []CommandsLand
<1>. DEFINE Inv == part = "import" => ImportInv
<1>1. OpsInit => Inv
  BY ImportInitInv DEF OpsInit, PartsInit
<1>2. ImportInv /\ [Import!Next]_Import!vars => ImportInv'
  BY ImporterStep, WindowStep DEF ImportInv
<1>3. Inv /\ [OpsNext]_opsVars => Inv'
  <2>1. CASE UNCHANGED opsVars
    BY <1>2, <2>1 DEF opsVars, importVars, adsVars, Import!vars
  <2>2. CASE OpsNext
    BY <1>2, <2>2 DEF OpsNext
  <2>. QED  BY <2>1, <2>2
<1>4. Inv => CommandsLand
  BY LandsOfInv, LiveOfInv DEF CommandsLand
<1>. QED  BY <1>1, <1>3, <1>4, PTL DEF OpsSpec


-----------------------------------------------------------------------------
(* The timetable *)

\* The documents of some file that the script accepts.
OfAFile(target) == \E f \in TimetableFile : Table!ValidTimetable(f) /\ target = Table!Documents(f)

InService(v, target) == {d \in target : d.serviceId = v}

\* A run that writes brings in a file it accepted; what VERIFIED was said about
\* is such a file, and is what the collection holds of its services.
LoadsInv == \A r \in DOMAIN loads : loads[r].pc = "write" => OfAFile(loads[r].target)
SettledInv ==
    settled # Null => OfAFile(settled.docs) /\ Table!Existing(settled.docs) = settled.docs

\* A week that was made while the collection was settled is made of the file's
\* documents, whenever it is kept.
MadeOf(week, source, v) ==
    source # Null /\ InService(v, source.docs) # {} =>
        week \in Table!Weeks(InService(v, source.docs))
WeekInv ==
    \A s \in Replica, v \in Service :
        /\ \A made \in weeks[s][v] : MadeOf(made.week, made.of, v)
        /\ kept[s][v] # Null => MadeOf(kept[s][v].week, kept[s][v].of, v)

TableDomain ==
    /\ DOMAIN loads = Run /\ DOMAIN weeks = Replica /\ DOMAIN kept = Replica
    /\ \A s \in Replica : DOMAIN weeks[s] = Service /\ DOMAIN kept[s] = Service
TableInv == TableDomain /\ LoadsInv /\ SettledInv /\ WeekInv

LEMMA TableInitInv == Table!Init => TableInv
  BY DEF Table!Init, TableInv, TableDomain, LoadsInv, SettledInv, WeekInv

\* The services of a file have one document for a weekday.
LEMMA DaysOfFile ==
  ASSUME NEW target, OfAFile(target), NEW d \in target, NEW e \in target,
         d # e, d.serviceId = e.serviceId
  PROVE  Table!ToSet(d.days) \cap Table!ToSet(e.days) = {}
<1>1. PICK f \in TimetableFile : Table!ValidTimetable(f) /\ target = Table!Documents(f)
  BY DEF OfAFile
<1>2. PICK p \in Table!ToSet(f.patterns) : \E s \in Table!ToSet(p.serviceIds) : d = Table!Document(p, s)
  BY <1>1 DEF Table!Documents
<1>3. PICK q \in Table!ToSet(f.patterns) : \E s \in Table!ToSet(q.serviceIds) : e = Table!Document(q, s)
  BY <1>1 DEF Table!Documents
<1>4. Table!ToSet(p.serviceIds) \cap Table!ToSet(q.serviceIds) # {} /\ p # q
  BY <1>2, <1>3 DEF Table!Document
<1>5. PICK i \in DOMAIN f.patterns, j \in DOMAIN f.patterns : p = f.patterns[i] /\ q = f.patterns[j]
  BY <1>2, <1>3 DEF Table!ToSet
<1>6. Table!ToSet(p.days) \cap Table!ToSet(q.days) = {}
  BY <1>1, <1>2, <1>3, <1>4, <1>5 DEF Table!ValidTimetable, Table!DaysApart
<1>. QED  BY <1>2, <1>3, <1>6 DEF Table!Document

\* While the collection is settled, a service of the file has the file's documents.
LEMMA ReadOfFile ==
  ASSUME SettledInv, settled # Null, NEW v, InService(v, settled.docs) # {}
  PROVE  Table!OfService(v) = InService(v, settled.docs)
  BY DEF SettledInv, Table!Existing, Table!OfService, InService

LEMMA LoadsStep == ASSUME TableInv, [Table!Next]_Table!vars PROVE LoadsInv' /\ DOMAIN loads' = Run
<1>. USE DEF TableInv, TableDomain, LoadsInv
<1>1. ASSUME NEW r \in Run, Table!Compare(r) PROVE LoadsInv' /\ DOMAIN loads' = Run
  BY <1>1 DEF Table!Compare, OfAFile
<1>2. ASSUME NEW r \in Run, Table!ReadBack(r) \/ Table!Abort(r) PROVE LoadsInv' /\ DOMAIN loads' = Run
  BY <1>2 DEF Table!ReadBack, Table!Abort
<1>3. ASSUME NEW r \in Run, NEW doc, Table!Replace(r, doc) PROVE LoadsInv' /\ DOMAIN loads' = Run
  <2>1. CASE loads' = [loads EXCEPT ![r] = [pc |-> "failed"]]
    BY <2>1
  <2>2. CASE loads' = [loads EXCEPT ![r].changed = @ \ {doc}]
    <3>1. \A q \in Run : loads'[q].pc = loads[q].pc /\ loads'[q].target = loads[q].target
      BY <2>2
    <3>. QED  BY <2>2, <3>1
  <2>. QED  BY <1>3, <2>1, <2>2 DEF Table!Replace
<1>4. CASE UNCHANGED loads
  BY <1>4
<1>. QED
  BY <1>1, <1>2, <1>3, <1>4 DEF Table!Next, Table!EditByHand, Table!Query, Table!Keep, Table!QueryFails, Table!Restart, Table!Tick, Table!vars

LEMMA SettledStep == ASSUME TableInv, [Table!Next]_Table!vars PROVE SettledInv'
<1>. USE DEF TableInv, SettledInv
<1>1. CASE UNCHANGED <<docs, settled>>
  BY <1>1 DEF Table!Existing
<1>2. CASE settled' = Null
  BY <1>2
<1>3. ASSUME NEW r \in Run, Table!ReadBack(r) PROVE SettledInv'
  <2>1. CASE UNCHANGED settled
    BY <1>3, <1>1, <2>1 DEF Table!ReadBack
  <2>2. CASE /\ Table!Holds(Table!Existing(loads[r].target), loads[r].target)
             /\ settled' = [docs |-> loads[r].target, at |-> clock]
    BY <1>3, <2>2 DEF Table!ReadBack, Table!Holds, Table!Existing, LoadsInv, TableDomain
  <2>. QED  BY <1>3, <2>1, <2>2 DEF Table!ReadBack
<1>. QED
  BY <1>1, <1>2, <1>3 DEF Table!Next, Table!Compare, Table!Abort, Table!Replace, Table!EditByHand, Table!Query, Table!Keep, Table!QueryFails,
                          Table!Restart, Table!Tick, Table!vars

LEMMA TableDomainStep == ASSUME TableInv, [Table!Next]_Table!vars PROVE TableDomain'
<1>. USE DEF TableInv, TableDomain
<1>1. CASE UNCHANGED <<weeks, kept>>
  BY <1>1, LoadsStep
<1>2. ASSUME NEW s \in Replica, NEW v \in Service, Table!Query(s, v) \/ Table!Keep(s, v) \/ Table!QueryFails(s, v)
      PROVE  TableDomain'
  BY <1>2 DEF Table!Query, Table!Keep, Table!QueryFails
<1>3. ASSUME NEW s \in Replica, Table!Restart(s) PROVE TableDomain'
  BY <1>3 DEF Table!Restart
<1>. QED
  BY <1>1, <1>2, <1>3 DEF Table!Next, Table!Compare, Table!ReadBack, Table!Abort, Table!Replace, Table!EditByHand, Table!Tick, Table!vars, Table!ops

\* What a step makes or keeps of a week is right, the other weeks are what they were.
LEMMA WeekStep == ASSUME TableInv, [Table!Next]_Table!vars PROVE WeekInv'
<1>. SUFFICES ASSUME NEW q \in Replica, NEW u \in Service
              PROVE  /\ \A made \in weeks'[q][u] : MadeOf(made.week, made.of, u)
                     /\ kept'[q][u] # Null => MadeOf(kept'[q][u].week, kept'[q][u].of, u)
  BY DEF WeekInv, MadeOf, InService, Table!Weeks
<1>. USE DEF TableInv, TableDomain
<1>0. /\ \A made \in weeks[q][u] : MadeOf(made.week, made.of, u)
      /\ kept[q][u] # Null => MadeOf(kept[q][u].week, kept[q][u].of, u)
  BY DEF WeekInv
<1>. DEFINE RightWeek(read, keep) ==
       /\ \A made \in read : MadeOf(made.week, made.of, u)
       /\ keep # Null => MadeOf(keep.week, keep.of, u)
<1>. SUFFICES RightWeek(weeks'[q][u], kept'[q][u])
  OBVIOUS
<1>1. CASE UNCHANGED <<weeks, kept>>
  BY <1>0, <1>1
<1>2. ASSUME NEW s \in Replica, NEW v \in Service, Table!Query(s, v)
      PROVE  RightWeek(weeks'[q][u], kept'[q][u])
  <2>1. PICK week \in Table!Weeks(Table!OfService(v)) :
          weeks' = [weeks EXCEPT ![s][v] = @ \cup {[week |-> week, of |-> settled]}]
    BY <1>2 DEF Table!Query
  <2>2. MadeOf(week, settled, v)
    BY <2>1, ReadOfFile DEF MadeOf
  <2>3. \A made \in weeks'[q][u] :
           made \in weeks[q][u] \/ (u = v /\ made = [week |-> week, of |-> settled])
    BY <2>1
  <2>4. UNCHANGED kept
    BY <1>2 DEF Table!Query
  <2>. QED  BY <1>0, <2>2, <2>3, <2>4
<1>3. ASSUME NEW s \in Replica, NEW v \in Service, Table!Keep(s, v)
      PROVE  RightWeek(weeks'[q][u], kept'[q][u])
  <2>1. PICK made \in weeks[s][v] :
          /\ kept' = [kept EXCEPT ![s][v] =
                        [week |-> made.week, of |-> made.of, time |-> clock]]
          /\ weeks' = [weeks EXCEPT ![s][v] = @ \ {made}]
    BY <1>3 DEF Table!Keep
  <2>2. weeks'[q][u] \subseteq weeks[q][u]
    BY <2>1
  <2>3. CASE q = s /\ u = v
    <3>1. kept'[q][u] = [week |-> made.week, of |-> made.of, time |-> clock]
      BY <2>1, <2>3
    <3>. QED  BY <1>0, <2>2, <2>3, <3>1
  <2>4. CASE ~(q = s /\ u = v)
    <3>1. kept'[q][u] = kept[q][u]
      BY <2>1, <2>4
    <3>. QED  BY <1>0, <2>2, <3>1
  <2>. QED  BY <2>3, <2>4
<1>4. ASSUME NEW s \in Replica, NEW v \in Service, Table!QueryFails(s, v)
      PROVE  RightWeek(weeks'[q][u], kept'[q][u])
  <2>1. weeks'[q][u] \subseteq weeks[q][u] /\ UNCHANGED kept
    BY <1>4 DEF Table!QueryFails
  <2>. QED  BY <1>0, <2>1
<1>5. ASSUME NEW s \in Replica, Table!Restart(s) PROVE RightWeek(weeks'[q][u], kept'[q][u])
  <2>1. \/ weeks'[q][u] = {} /\ kept'[q][u] = Null
        \/ weeks'[q][u] = weeks[q][u] /\ kept'[q][u] = kept[q][u]
    BY <1>5 DEF Table!Restart
  <2>. QED  BY <1>0, <2>1
<1>. QED
  BY <1>1, <1>2, <1>3, <1>4, <1>5
     DEF Table!Next, Table!Compare, Table!ReadBack, Table!Abort, Table!Replace, Table!EditByHand, Table!Tick, Table!vars, Table!ops

LEMMA TableStepInv == TableInv /\ [Table!Next]_Table!vars => TableInv'
  BY LoadsStep, SettledStep, WeekStep, TableDomainStep DEF TableInv

LEMMA ServedOfInv == TableInv => Table!ScheduleServed
<1>. SUFFICES ASSUME TableInv, settled # Null PROVE Table!ScheduleServed
  BY DEF Table!ScheduleServed
<1>1. \A d, e \in settled.docs :
         d # e /\ d.serviceId = e.serviceId => Table!ToSet(d.days) \cap Table!ToSet(e.days) = {}
  BY DaysOfFile DEF TableInv, SettledInv
<1>2. ASSUME NEW s \in Replica, NEW v \in Service, Table!Fresh(s, v), InService(v, settled.docs) # {},
             kept[s][v].of = settled, NEW day \in Weekday
      PROVE  LET named == {d \in InService(v, settled.docs) : day \in Table!ToSet(d.days)}
             IN kept[s][v].week[day] \in IF named = {} THEN {Null} ELSE {d.entries : d \in named}
  <2>1. kept[s][v].week \in Table!Weeks(InService(v, settled.docs))
    BY <1>2 DEF Table!Fresh, TableInv, WeekInv, MadeOf
  <2>. QED  BY <2>1 DEF Table!Weeks
<1>. QED  BY <1>1, <1>2 DEF Table!ScheduleServed, InService

\* After VERIFIED each weekday of a service of the file has one timetable, the file's,
\* and every answer computed since shows it: for any files and documents typed by hand,
\* any number of runs, replicas and requests under way, runs and replicas dying anywhere.
THEOREM ScheduleAlwaysServed == OpsSpec => []ScheduleServed
<1>. DEFINE Inv == part = "timetable" => TableInv
<1>1. OpsInit => Inv
  BY TableInitInv DEF OpsInit, PartsInit
<1>3. Inv /\ [OpsNext]_opsVars => Inv'
  <2>1. CASE UNCHANGED opsVars
    BY TableStepInv, <2>1 DEF opsVars, tableVars, adsVars, Table!vars
  <2>2. CASE OpsNext
    BY TableStepInv, <2>2 DEF OpsNext
  <2>. QED  BY <2>1, <2>2
<1>4. Inv => ScheduleServed
  BY ServedOfInv DEF ScheduleServed
<1>. QED  BY <1>1, <1>3, <1>4, PTL DEF OpsSpec


-----------------------------------------------------------------------------
(* The broadcasts *)

USE SendAssumption

Running == {"insert", "post", "record"}

\* What each stage of a send says of its reply, its call and the function.
StageInv ==
    \A i \in Send :
        /\ pc[i] \in {"idle", "insert"} => call[i] = "none"
        /\ pc[i] = "idle" => reply[i] = "none"
        /\ pc[i] \in Running => reply[i] \in {"none", "unknown"}
        /\ pc[i] = "dead" => reply[i] = "unknown"
        /\ pc[i] = "record" => i \in heard
        /\ i \in heard => pc[i] \in {"record", "done", "dead"}
        /\ reply[i] \in {"failed", "refused"} => call[i] = "none" /\ pc[i] = "done"
        /\ reply[i] \in {"undelivered", "delivered"} => pc[i] = "done"

\* The function pushes only what it was called with, and is called only for an
\* entry that is in the feed.
CallInv ==
    \A i \in Send :
        /\ call[i] # "none" => i \in feed
        /\ call[i] = "ok" => i \in pushed
        /\ i \in pushed => call[i] # "none"

\* A send that is followed by another of the same announcement has its reply.
RepeatInv ==
    \A i, j \in 1 .. started :
        i < j /\ of[i] = of[j] => reply[i] # "none"

SendInv ==
    /\ TypeOK
    /\ StageInv
    /\ CallInv
    /\ RepliesHonest
    /\ RepeatInv
    /\ RepeatedUnheardOnly

\* The invariant holds initially.
LEMMA SendInitInv == Init => SendInv
<1> SUFFICES ASSUME Init PROVE SendInv
  OBVIOUS
<1>1. TypeOK
  BY DEF Init, TypeOK, Send, PC, Reply, Call
<1>2. StageInv /\ CallInv /\ RepliesHonest
  BY DEF Init, StageInv, CallInv, RepliesHonest, Running
<1>3. RepeatInv /\ RepeatedUnheardOnly
  BY DEF Init, RepeatInv, RepeatedUnheardOnly
<1> QED
  BY <1>1, <1>2, <1>3 DEF SendInv

\* A step that starts no send and takes no reply back keeps RepeatInv.
LEMMA RepeatKept ==
    ASSUME TypeOK, RepeatInv, started' = started, of' = of,
           \A i \in Send : reply[i] # "none" => reply'[i] = reply[i]
    PROVE  RepeatInv'
BY DEF TypeOK, RepeatInv, Send

\* If moreover nothing new is heard, it keeps RepeatedUnheardOnly.
LEMMA RepeatedKept ==
    ASSUME TypeOK, RepeatedUnheardOnly, started' = started, of' = of, heard' = heard,
           \A i \in Send : reply[i] # "none" => reply'[i] = reply[i]
    PROVE  RepeatedUnheardOnly'
BY DEF TypeOK, RepeatedUnheardOnly, Send

\* Starting a send.
LEMMA StartInv == ASSUME SendInv, NEW i \in Send, Start(i) PROVE SendInv'
<1> USE DEF SendInv
<1>1. TypeOK'
  BY DEF TypeOK, Start, Goes, Replies, Send, PC, Reply
<1>2. StageInv' /\ CallInv' /\ RepliesHonest'
  BY DEF TypeOK, Start, Goes, Replies, Send, StageInv, CallInv, RepliesHonest, Running
<1>3. \A k \in 1 .. started : k # i /\ reply'[k] = reply[k]
  BY DEF TypeOK, Start, Replies, Send
<1>4. \A k \in 1 .. started : of[k] = of[i] => reply[k] \notin {"none", "delivered", "refused"}
  BY DEF Start, Wanted, Sends
<1>5. RepeatInv'
  BY <1>3, <1>4 DEF TypeOK, RepeatInv, Start, Send
<1>6. RepeatedUnheardOnly'
  <2> SUFFICES ASSUME NEW k \in 1 .. i, NEW j \in 1 .. i, k < j, of[k] = of[j], k \in heard
               PROVE  reply'[k] = "unknown"
    BY DEF Start, RepeatedUnheardOnly
  <2>1. k \in 1 .. started /\ k \in Send /\ reply'[k] = reply[k]
    BY <1>3 DEF TypeOK, Start, Send
  <2>2. CASE j = i
    BY <2>1, <2>2, <1>4 DEF TypeOK, RepliesHonest, Reply
  <2>3. CASE j # i
    BY <2>1, <2>3 DEF TypeOK, RepeatedUnheardOnly, Start, Send
  <2> QED
    BY <2>2, <2>3
<1> QED
  BY <1>1, <1>2, <1>5, <1>6

\* Writing the entry, or failing to.
LEMMA InsertInv == ASSUME SendInv, NEW i \in Send, Insert(i) \/ InsertThrows(i) PROVE SendInv'
<1> USE DEF SendInv
<1>1. TypeOK'
  <2>1. CASE Insert(i)
    BY <2>1 DEF TypeOK, Insert, Goes, PC, Call
  <2>2. CASE InsertThrows(i)
    BY <2>2 DEF TypeOK, InsertThrows, Goes, Replies, PC, Reply
  <2> QED
    BY <2>1, <2>2
<1>2. StageInv'
  BY DEF TypeOK, Insert, InsertThrows, Goes, Replies, StageInv, CallInv, Running
<1>3. CallInv' /\ RepliesHonest'
  BY DEF TypeOK, Insert, InsertThrows, Goes, Replies, StageInv, CallInv, RepliesHonest, Running
<1>4. RepeatInv' /\ RepeatedUnheardOnly'
  BY RepeatKept, RepeatedKept DEF TypeOK, Insert, InsertThrows, Replies
<1> QED
  BY <1>1, <1>2, <1>3, <1>4

\* The call returns: the one step that adds to what was heard.
LEMMA DeliveredInv == ASSUME SendInv, NEW i \in Send, Delivered(i) PROVE SendInv'
<1> USE DEF SendInv
<1>1. TypeOK'
  BY DEF TypeOK, Delivered, Goes, Send, PC
<1>2. StageInv' /\ CallInv' /\ RepliesHonest'
  BY DEF TypeOK, Delivered, Goes, StageInv, CallInv, RepliesHonest, Running
<1>3. RepeatInv'
  BY RepeatKept DEF Delivered
<1>4. RepeatedUnheardOnly'
  BY DEF TypeOK, Delivered, RepeatedUnheardOnly, RepeatInv, StageInv, Running, Send
<1> QED
  BY <1>1, <1>2, <1>3, <1>4

\* The call throws.
LEMMA UndeliveredInv == ASSUME SendInv, NEW i \in Send, Undelivered(i) PROVE SendInv'
<1> USE DEF SendInv
<1>1. TypeOK'
  BY DEF TypeOK, Undelivered, KeptOnFailure, NotRecordedOnFailure, Goes, Replies, Send, PC, Reply
<1>2. StageInv' /\ CallInv' /\ RepliesHonest'
  BY DEF TypeOK, Undelivered, KeptOnFailure, NotRecordedOnFailure, Goes, Replies,
         StageInv, CallInv, RepliesHonest, Running
<1>3. RepeatInv' /\ RepeatedUnheardOnly'
  BY RepeatKept, RepeatedKept DEF TypeOK, Undelivered, Replies
<1> QED
  BY <1>1, <1>2, <1>3

\* The delivery is recorded, or that fails.
LEMMA RecordInv ==
    ASSUME SendInv, NEW i \in Send, NEW written \in BOOLEAN, Record(i, written) PROVE SendInv'
<1> USE DEF SendInv
<1>1. TypeOK'
  BY DEF TypeOK, Record, ReplyTo, Goes, Replies, Send, PC, Reply
<1>2. StageInv' /\ CallInv' /\ RepliesHonest'
  BY DEF TypeOK, Record, ReplyTo, Goes, Replies, StageInv, CallInv, RepliesHonest, Running
<1>3. RepeatInv' /\ RepeatedUnheardOnly'
  BY RepeatKept, RepeatedKept DEF TypeOK, Record, Replies
<1> QED
  BY <1>1, <1>2, <1>3

\* The process crashes, or the gateway gives up on it.
LEMMA LostInv == ASSUME SendInv, NEW i \in Send, Crash(i) \/ GatewayGivesUp(i) PROVE SendInv'
<1> USE DEF SendInv
<1>1. TypeOK'
  BY DEF TypeOK, Crash, GatewayGivesUp, Goes, Replies, Send, PC, Reply
<1>2. StageInv' /\ CallInv' /\ RepliesHonest'
  BY DEF TypeOK, Crash, GatewayGivesUp, Goes, Replies, StageInv, CallInv, RepliesHonest, Running
<1>3. RepeatInv' /\ RepeatedUnheardOnly'
  BY RepeatKept, RepeatedKept DEF TypeOK, Crash, GatewayGivesUp, Replies
<1> QED
  BY <1>1, <1>2, <1>3

\* The function pushes, or answers.
LEMMA FunctionInv == ASSUME SendInv, NEW i \in Send, Pushes(i) \/ Answers(i) PROVE SendInv'
<1> USE DEF SendInv
<1>1. TypeOK'
  BY DEF TypeOK, Pushes, Answers, Send, Call
<1>2. StageInv' /\ CallInv' /\ RepliesHonest'
  BY DEF TypeOK, Pushes, Answers, StageInv, CallInv, RepliesHonest, Running
<1>3. RepeatInv' /\ RepeatedUnheardOnly'
  BY RepeatKept, RepeatedKept DEF Pushes, Answers
<1> QED
  BY <1>1, <1>2, <1>3

\* Every step keeps the invariant.
LEMMA SendStepInv == SendInv /\ [Next]_vars => SendInv'
<1> SUFFICES ASSUME SendInv, [Next]_vars PROVE SendInv'
  OBVIOUS
<1>1. CASE Next
  <2> PICK i \in Send : Start(i) \/ Proceed(i) \/ Crash(i) \/ GatewayGivesUp(i)
                          \/ Pushes(i) \/ Answers(i)
    BY <1>1 DEF Next
  <2> QED
    BY StartInv, InsertInv, DeliveredInv, UndeliveredInv, RecordInv, LostInv, FunctionInv
    DEF Proceed
<1>2. CASE UNCHANGED vars
  BY <1>2 DEF vars, SendInv, TypeOK, StageInv, CallInv, RepliesHonest, RepeatInv, RepeatedUnheardOnly
<1> QED
  BY <1>1, <1>2

\* A pushed entry is in the feed; it is listed unless FeedLimit newer ones are.
LEMMA ListedOfInv == SendInv => PushedIsListed
<1> SUFFICES ASSUME SendInv, NEW i \in pushed,
                    ~(Cardinality({j \in feed : j > i}) >= FeedLimit)
             PROVE  i \in Listed
  BY DEF PushedIsListed
<1>1. i \in feed
  BY DEF SendInv, TypeOK, CallInv
<1>2. IsFiniteSet({j \in feed : j > i})
  <2>1. IsFiniteSet(1 .. MaxSend)
    BY FS_Interval
  <2> QED
    BY <2>1, FS_Subset DEF SendInv, TypeOK, Send
<1>3. Cardinality({j \in feed : j > i}) \in Nat
  BY <1>2, FS_CardinalityType
<1> QED
  BY <1>1, <1>3 DEF Listed

\* The types, for any announcements and any number of sends.
THEOREM SendTypeCorrect == Spec => []TypeOK
BY SendInitInv, SendStepInv, PTL DEF Spec, SendInv

\* Whoever was pushed an announcement finds it in the feed.
THEOREM PushedAlwaysListed == Spec => []PushedIsListed
BY SendInitInv, SendStepInv, ListedOfInv, PTL DEF Spec

\* Replies and records never claim a delivery that was not, nor deny one that the
\* process heard of.
THEOREM RepliesAlwaysHonest == Spec => []RepliesHonest
BY SendInitInv, SendStepInv, PTL DEF Spec, SendInv

\* A broadcast that was delivered is sent again only if its reply was lost.
THEOREM NeverRepeatedForTheRecord == Spec => []RepeatedUnheardOnly
BY SendInitInv, SendStepInv, PTL DEF Spec, SendInv

-----------------------------------------------------------------------------
(* What was imported *)

\* The numbers of a list can be added up to each place.
IsSums(u, a, n) == u = [k \in 0 .. n |-> IF k = 0 THEN 0 ELSE u[k - 1] + a[k]]

LEMMA SumsExist ==
  ASSUME NEW n \in Nat, NEW a, \A k \in 1 .. n : a[k] \in Int
  PROVE  \E u : IsSums(u, a, n)
<1>. DEFINE Summed(m) == \E u \in [0 .. m -> Int] : u = [k \in 0 .. m |-> IF k = 0 THEN 0 ELSE u[k - 1] + a[k]]
            bad == {m \in 0 .. n : ~Summed(m)}
<1>1. Summed(0)
  <2>. DEFINE u == [k \in 0 .. 0 |-> 0]
  <2>1. u \in [0 .. 0 -> Int] /\ u = [k \in 0 .. 0 |-> IF k = 0 THEN 0 ELSE u[k - 1] + a[k]]
    OBVIOUS
  <2>. HIDE DEF u
  <2>. QED  BY <2>1
<1>2. ASSUME NEW m \in 1 .. n, Summed(m - 1) PROVE Summed(m)
  <2>1. PICK u \in [0 .. m - 1 -> Int] :
          u = [k \in 0 .. m - 1 |-> IF k = 0 THEN 0 ELSE u[k - 1] + a[k]]
    BY <1>2
  <2>. DEFINE v == [k \in 0 .. m |-> IF k = m THEN u[m - 1] + a[m] ELSE u[k]]
  <2>2. m \in Nat /\ m - 1 \in 0 .. m - 1 /\ a[m] \in Int
    OBVIOUS
  <2>3. \A k \in 0 .. m : k # m => k \in 0 .. m - 1
    BY <2>2
  <2>4. \A k \in 0 .. m - 1 : v[k] = u[k] /\ u[k] \in Int
    BY <2>2
  <2>5. v[m] = u[m - 1] + a[m] /\ v[m - 1] = u[m - 1] /\ v[m] \in Int
    BY <2>2
  <2>6. v \in [0 .. m -> Int]
    BY <2>3, <2>4, <2>5
  <2>7. \A k \in 0 .. m : v[k] = IF k = 0 THEN 0 ELSE v[k - 1] + a[k]
    <3>. SUFFICES ASSUME NEW k \in 0 .. m
                  PROVE  v[k] = IF k = 0 THEN 0 ELSE v[k - 1] + a[k]
      OBVIOUS
    <3>. HIDE DEF v
    <3>1. CASE k = m
      BY <2>2, <2>5, <3>1
    <3>2. CASE k # m /\ k = 0
      <4>1. u[0] = 0
        BY <2>1, <2>2
      <4>. QED  BY <2>3, <2>4, <3>2, <4>1
    <3>3. CASE k # m /\ k # 0
      <4>1. k \in 0 .. m - 1 /\ k - 1 \in 0 .. m - 1
        BY <2>2, <3>3
      <4>2. u[k] = u[k - 1] + a[k]
        BY <2>1, <3>3, <4>1
      <4>. QED  BY <2>4, <3>3, <4>1, <4>2
    <3>. QED  BY <3>1, <3>2, <3>3
  <2>8. v = [k \in 0 .. m |-> IF k = 0 THEN 0 ELSE v[k - 1] + a[k]]
    <3>1. DOMAIN v = 0 .. m /\ v = [k \in 0 .. m |-> v[k]]
      OBVIOUS
    <3>. HIDE DEF v
    <3>. QED  BY <2>7, <3>1
  <2>. HIDE DEF v
  <2>. QED  BY <2>6, <2>8
<1>3. bad = {}
  <2>. SUFFICES ASSUME bad # {} PROVE FALSE
    OBVIOUS
  <2>1. bad \subseteq Nat
    OBVIOUS
  <2>. HIDE DEF bad
  <2>2. PICK m \in bad : \A k \in bad : m <= k
    BY <2>1, HasLeast
  <2>3. m \in 0 .. n /\ ~Summed(m)
    BY DEF bad
  <2>. HIDE DEF Summed
  <2>4. m # 0
    BY <1>1, <2>3
  <2>5. m - 1 \in 0 .. n /\ ~(m <= m - 1) /\ m \in 1 .. n
    BY <2>3, <2>4
  <2>6. Summed(m - 1)
    BY <2>2, <2>5 DEF bad
  <2>. QED  BY <1>2, <2>3, <2>5, <2>6
<1>4. n \in 0 .. n
  OBVIOUS
<1>5. Summed(n)
  <2>. HIDE DEF Summed
  <2>. QED  BY <1>3, <1>4
<1>. QED  BY <1>5 DEF IsSums

LEMMA SumsAre ==
  ASSUME NEW n \in Nat, NEW a, \A k \in 1 .. n : a[k] \in Int,
         NEW u, IsSums(u, a, n)
  PROVE  /\ u[0] = 0
         /\ \A k \in 1 .. n : u[k] = u[k - 1] + a[k]
         /\ \A k \in 0 .. n : u[k] \in Int
<1>1. 0 \in 0 .. n /\ u[0] = 0
  BY DEF IsSums
<1>2. ASSUME NEW k \in 1 .. n PROVE u[k] = u[k - 1] + a[k]
  <2>1. k \in 0 .. n /\ k # 0
    OBVIOUS
  <2>. QED  BY <2>1 DEF IsSums
<1>. DEFINE bad == {k \in 0 .. n : u[k] \notin Int}
<1>3. bad = {}
  <2>. SUFFICES ASSUME bad # {} PROVE FALSE
    OBVIOUS
  <2>1. bad \subseteq Nat
    OBVIOUS
  <2>. HIDE DEF bad
  <2>2. PICK m \in bad : \A k \in bad : m <= k
    BY <2>1, HasLeast
  <2>3. m \in 0 .. n /\ u[m] \notin Int /\ m # 0
    BY <1>1 DEF bad
  <2>4. m - 1 \in 0 .. n /\ ~(m <= m - 1) /\ m \in 1 .. n
    BY <2>3
  <2>5. u[m - 1] \in Int
    BY <2>2, <2>4 DEF bad
  <2>. QED  BY <1>2, <2>3, <2>4, <2>5
<1>. QED  BY <1>1, <1>2, <1>3

LEMMA Crossed ==
  ASSUME NEW p, p[1] \in Int, p[2] \in Int, NEW q, q[1] \in Int, q[2] \in Int
  PROVE  Wire!Cross(p, q) \in Int /\ Wire!Cross(q, p) = -Wire!Cross(p, q)
<1>. DEFINE x == p[1]
            y == p[2]
            v == q[1]
            w == q[2]
<1>1. Wire!Cross(p, q) = x * w - v * y /\ Wire!Cross(q, p) = v * y - x * w
  BY DEF Wire!Cross
<1>2. x \in Int /\ y \in Int /\ v \in Int /\ w \in Int
  OBVIOUS
<1>. HIDE DEF x, y, v, w
<1>3. x * w \in Int /\ v * y \in Int
  BY <1>2
<1>. QED  BY <1>1, <1>3

\* The area of a ring is the last of such sums.
LEMMA AreaOf ==
  ASSUME NEW ring \in Seq(Seq(Int)), Len(ring) >= 3,
         \A i \in DOMAIN ring : Len(ring[i]) >= 2
  PROVE  LET n == Len(ring)
             a == [k \in 1 .. n |-> Wire!Cross(ring[k], ring[IF k = n THEN 1 ELSE k + 1])]
         IN /\ \A k \in 1 .. n : a[k] \in Int
            /\ \E u : IsSums(u, a, n) /\ Wire!SignedArea(ring) = u[n]
<1>. DEFINE n == Len(ring)
            a == [k \in 1 .. n |-> Wire!Cross(ring[k], ring[IF k = n THEN 1 ELSE k + 1])]
            u == CHOOSE u : u = [k \in 0 .. n |->
                    IF k = 0 THEN 0
                    ELSE u[k - 1] + Wire!Cross(ring[k], ring[IF k = n THEN 1 ELSE k + 1])]
<1>1. n \in Nat /\ n >= 3 /\ \A k \in 1 .. n : ring[k][1] \in Int /\ ring[k][2] \in Int
  OBVIOUS
<1>2. \A k \in 1 .. n : a[k] \in Int
  <2>1. \A k \in 1 .. n : (IF k = n THEN 1 ELSE k + 1) \in 1 .. n
    BY <1>1
  <2>2. \A k, j \in 1 .. n : Wire!Cross(ring[k], ring[j]) \in Int
    <3>. SUFFICES ASSUME NEW k \in 1 .. n, NEW j \in 1 .. n
                  PROVE  Wire!Cross(ring[k], ring[j]) \in Int
      OBVIOUS
    <3>1. ring[k][1] \in Int /\ ring[k][2] \in Int /\ ring[j][1] \in Int /\ ring[j][2] \in Int
      BY <1>1
    <3>. HIDE DEF n
    <3>. QED  BY <3>1, Crossed
  <2>. HIDE DEF n
  <2>. QED  BY <2>1, <2>2
<1>3. Wire!SignedArea(ring) = u[n]
  BY <1>1 DEF Wire!SignedArea
<1>4. IsSums(u, a, n)
  <2>. DEFINE P(v) == v = [k \in 0 .. n |->
                    IF k = 0 THEN 0
                    ELSE v[k - 1] + Wire!Cross(ring[k], ring[IF k = n THEN 1 ELSE k + 1])]
  <2>1. \A v : IsSums(v, a, n) <=> P(v)
    <3>. SUFFICES ASSUME NEW v PROVE IsSums(v, a, n) <=> P(v)
      OBVIOUS
    <3>1. \A k \in 0 .. n : k # 0 =>
            a[k] = Wire!Cross(ring[k], ring[IF k = n THEN 1 ELSE k + 1])
      BY <1>1
    <3>. HIDE DEF a, n
    <3>. QED  BY <3>1 DEF IsSums
  <2>2. \E v : P(v)
    <3>. HIDE DEF P, a, n
    <3>. QED  BY <1>1, <1>2, <2>1, SumsExist
  <2>3. u = CHOOSE v : P(v)
    OBVIOUS
  <2>. HIDE DEF P, u
  <2>. QED  BY <2>1, <2>2, <2>3
<1>. HIDE DEF u, a
<1>. QED  BY <1>2, <1>3, <1>4 DEF a

\* A closed ring read backwards has the opposite area.
LEMMA AreaReversed ==
  ASSUME NEW ring \in Seq(Seq(Int)), Len(ring) >= 3,
         \A i \in DOMAIN ring : Len(ring[i]) >= 2,
         ring[1] = ring[Len(ring)]
  PROVE  /\ Wire!SignedArea(ring) \in Int
         /\ Wire!SignedArea(Reverse(ring)) = -Wire!SignedArea(ring)
<1>. DEFINE n == Len(ring)
            back == Reverse(ring)
            a == [k \in 1 .. n |-> Wire!Cross(ring[k], ring[IF k = n THEN 1 ELSE k + 1])]
            b == [k \in 1 .. n |-> Wire!Cross(back[k], back[IF k = n THEN 1 ELSE k + 1])]
<1>1. n \in Nat /\ n >= 3 /\ \A k \in 1 .. n : ring[k][1] \in Int /\ ring[k][2] \in Int
  <2>1. n \in Nat /\ n >= 3 /\ \A k \in 1 .. n : ring[k] \in Seq(Int) /\ Len(ring[k]) >= 2
    OBVIOUS
  <2>. HIDE DEF n
  <2>2. \A p \in Seq(Int) : Len(p) >= 2 => p[1] \in Int /\ p[2] \in Int
    OBVIOUS
  <2>. QED  BY <2>1, <2>2
<1>2. /\ back \in Seq(Seq(Int)) /\ Len(back) = n
      /\ \A k \in 1 .. n : n + 1 - k \in 1 .. n /\ back[k] = ring[n + 1 - k]
      /\ \A k \in DOMAIN back : Len(back[k]) >= 2
  BY DEF Reverse
<1>3. PICK u : IsSums(u, a, n) /\ Wire!SignedArea(ring) = u[n]
  BY AreaOf
<1>4. PICK v : IsSums(v, b, n) /\ Wire!SignedArea(back) = v[n]
  <2>. HIDE DEF back
  <2>. QED  BY <1>1, <1>2, AreaOf
<1>5. (\A k \in 1 .. n : a[k] \in Int) /\ (\A k \in 1 .. n : b[k] \in Int)
  <2>1. \A k \in 1 .. n : a[k] \in Int
    BY AreaOf
  <2>. HIDE DEF back, a
  <2>2. \A k \in 1 .. n : b[k] \in Int
    BY <1>1, <1>2, AreaOf
  <2>. QED  BY <2>1, <2>2
<1>6. a[n] = 0 /\ b[n] = 0
  <2>1. ring[n] = ring[1] /\ back[n] = ring[1] /\ back[1] = ring[n]
    BY <1>1, <1>2
  <2>2. n \in 1 .. n
    BY <1>1
  <2>3. Wire!Cross(ring[1], ring[1]) = 0
    <3>1. ring[1][1] \in Int /\ ring[1][2] \in Int
      BY <1>1
    <3>. QED  BY <3>1 DEF Wire!Cross
  <2>. HIDE DEF back, n
  <2>. QED  BY <2>1, <2>2, <2>3
<1>7. ASSUME NEW k \in 1 .. n - 1 PROVE n - k \in 1 .. n /\ b[k] = -a[n - k]
  <2>. DEFINE i == n - k
              p == ring[i]
              q == ring[i + 1]
  <2>1. k \in 1 .. n /\ k # n /\ k + 1 \in 1 .. n /\ i \in 1 .. n /\ i # n /\ i + 1 \in 1 .. n
    BY <1>1
  <2>2. back[k] = q /\ back[k + 1] = p
    BY <1>1, <1>2, <2>1
  <2>3. p[1] \in Int /\ p[2] \in Int /\ q[1] \in Int /\ q[2] \in Int
    BY <1>1, <2>1
  <2>4. b[k] = Wire!Cross(q, p) /\ a[i] = Wire!Cross(p, q)
    <3>. HIDE DEF back, n
    <3>. QED  BY <2>1, <2>2
  <2>. HIDE DEF p, q
  <2>5. Wire!Cross(q, p) = -Wire!Cross(p, q)
    BY <2>3, Crossed
  <2>. QED  BY <2>1, <2>4, <2>5
<1>. HIDE DEF a, b, n, back
<1>8. /\ u[0] = 0
      /\ \A k \in 1 .. n : u[k] = u[k - 1] + a[k]
      /\ \A k \in 0 .. n : u[k] \in Int
  BY <1>1, <1>3, <1>5, SumsAre
<1>9. /\ v[0] = 0
      /\ \A k \in 1 .. n : v[k] = v[k - 1] + b[k]
      /\ \A k \in 0 .. n : v[k] \in Int
  BY <1>1, <1>4, <1>5, SumsAre
<1>. DEFINE Agrees(k) == v[k] = u[n - 1 - k] - u[n - 1]
            bad == {k \in 0 .. n - 1 : ~Agrees(k)}
<1>10. Agrees(0)
  <2>1. n - 1 - 0 = n - 1 /\ n - 1 \in 0 .. n
    BY <1>1
  <2>. QED  BY <1>8, <1>9, <2>1
<1>11. ASSUME NEW k \in 1 .. n - 1, Agrees(k - 1) PROVE Agrees(k)
  <2>1. v[k] = v[k - 1] + b[k] /\ b[k] = -a[n - k]
    BY <1>1, <1>7, <1>9
  <2>. DEFINE i == n - k
  <2>2. i \in 1 .. n /\ n - 1 - (k - 1) = i /\ n - 1 - k = i - 1 /\ i - 1 \in 0 .. n
    BY <1>1
  <2>3. u[i] = u[i - 1] + a[i]
    BY <1>8, <2>2
  <2>4. v[k - 1] = u[i] - u[n - 1]
    BY <1>11, <2>2
  <2>5. u[i] \in Int /\ u[i - 1] \in Int /\ u[n - 1] \in Int /\ a[i] \in Int
    BY <1>1, <1>5, <1>8, <2>2
  <2>6. v[k] = u[i - 1] - u[n - 1]
    <3>1. v[k] = v[k - 1] - a[i]
      BY <2>1, <2>4, <2>5
    <3>. HIDE DEF i
    <3>. QED  BY <2>3, <2>4, <2>5, <3>1
  <2>. QED  BY <2>2, <2>6
<1>12. bad = {}
  <2>. SUFFICES ASSUME bad # {} PROVE FALSE
    OBVIOUS
  <2>1. bad \subseteq Nat
    BY <1>1
  <2>. HIDE DEF bad
  <2>2. PICK m \in bad : \A k \in bad : m <= k
    BY <2>1, HasLeast
  <2>3. m \in 0 .. n - 1 /\ ~Agrees(m)
    BY DEF bad
  <2>. HIDE DEF Agrees
  <2>4. m # 0
    BY <1>10, <2>3
  <2>5. m - 1 \in 0 .. n - 1 /\ ~(m <= m - 1) /\ m \in 1 .. n - 1
    BY <1>1, <2>3, <2>4
  <2>6. Agrees(m - 1)
    BY <2>2, <2>5 DEF bad
  <2>. QED  BY <1>11, <2>3, <2>5, <2>6
<1>13. v[n - 1] = u[0] - u[n - 1]
  <2>1. n - 1 \in 0 .. n - 1 /\ n - 1 - (n - 1) = 0
    BY <1>1
  <2>. QED  BY <1>12, <2>1
<1>14. u[n] = u[n - 1] /\ v[n] = v[n - 1] /\ u[n - 1] \in Int /\ u[n] \in Int
  <2>1. n \in 1 .. n /\ n - 1 \in 0 .. n /\ n \in 0 .. n
    BY <1>1
  <2>2. u[n - 1] \in Int /\ v[n - 1] \in Int /\ u[n] \in Int
    BY <1>8, <1>9, <2>1
  <2>. QED  BY <1>6, <1>8, <1>9, <2>1, <2>2
<1>15. v[n] = -u[n] /\ u[n] \in Int
  BY <1>8, <1>13, <1>14
<1>. QED  BY <1>3, <1>4, <1>15 DEF back

\* A ring as it is sent is closed, turns the way it has to, and has its positions.
LEMMA Rewound ==
  ASSUME NEW ring \in Seq(Seq(Int)), Len(ring) >= 4,
         \A i \in DOMAIN ring : Len(ring[i]) >= 2, NEW ccw \in BOOLEAN
  PROVE  LET sent == Wire!RewindRing(ring, ccw)
         IN /\ sent[1] = sent[Len(sent)]
            /\ Wire!SignedArea(sent) \in Int
            /\ IF ccw THEN Wire!SignedArea(sent) >= 0 ELSE Wire!SignedArea(sent) <= 0
            /\ {sent[k] : k \in DOMAIN sent} = {ring[k] : k \in DOMAIN ring}
<1>. DEFINE closed == Wire!CloseRing(ring)
            n == Len(closed)
            back == Reverse(closed)
            area == Wire!SignedArea(closed)
            sent == Wire!RewindRing(ring, ccw)
<1>1. /\ closed \in Seq(Seq(Int)) /\ n >= 4 /\ n \in Nat
      /\ closed[1] = closed[n]
      /\ \A i \in DOMAIN closed : Len(closed[i]) >= 2
      /\ {closed[k] : k \in DOMAIN closed} = {ring[k] : k \in DOMAIN ring}
  <2>1. CASE ring[1] = ring[Len(ring)]
    <3>1. closed = ring
      BY <2>1 DEF Wire!CloseRing, Wire!IsClosed
    <3>. QED  BY <2>1, <3>1
  <2>2. CASE ring[1] # ring[Len(ring)]
    <3>. DEFINE m == Len(ring)
                more == Append(ring, ring[1])
    <3>1. closed = more
      BY <2>2 DEF Wire!CloseRing, Wire!IsClosed
    <3>2. m \in Nat /\ m >= 4 /\ ring[1] \in Seq(Int) /\ DOMAIN ring = 1 .. m /\ 1 \in 1 .. m
      OBVIOUS
    <3>3. /\ more \in Seq(Seq(Int)) /\ Len(more) = m + 1 /\ DOMAIN more = 1 .. m + 1
          /\ \A k \in 1 .. m : more[k] = ring[k]
          /\ more[m + 1] = ring[1]
      BY <3>2
    <3>4. 1 .. m + 1 = (1 .. m) \cup {m + 1}
      BY <3>2
    <3>5. \A i \in 1 .. m : Len(ring[i]) >= 2
      BY <3>2
    <3>. HIDE DEF m, more, closed
    <3>6. \A i \in 1 .. m + 1 : Len(more[i]) >= 2
      BY <3>2, <3>3, <3>4, <3>5
    <3>7. {more[k] : k \in 1 .. m + 1} = {ring[k] : k \in 1 .. m}
      BY <3>2, <3>3, <3>4
    <3>8. m + 1 \in Nat /\ m + 1 >= 4 /\ more[1] = more[m + 1]
      BY <3>2, <3>3
    <3>. QED  BY <3>1, <3>2, <3>3, <3>6, <3>7, <3>8
  <2>. QED  BY <2>1, <2>2
<1>. HIDE DEF closed
<1>2. area \in Int /\ Wire!SignedArea(back) = -area
  <2>1. /\ closed \in Seq(Seq(Int)) /\ Len(closed) >= 3
        /\ \A i \in DOMAIN closed : Len(closed[i]) >= 2
        /\ closed[1] = closed[Len(closed)]
    BY <1>1
  <2>. HIDE DEF n, back, area
  <2>2. /\ Wire!SignedArea(closed) \in Int
        /\ Wire!SignedArea(Reverse(closed)) = -Wire!SignedArea(closed)
    BY <2>1, AreaReversed
  <2>. QED  BY <2>2 DEF back, area
<1>3. /\ Len(back) = n /\ back[1] = closed[n] /\ back[n] = closed[1]
      /\ {back[k] : k \in DOMAIN back} = {closed[k] : k \in DOMAIN closed}
  <2>1. /\ back = [k \in 1 .. n |-> closed[n - k + 1]] /\ DOMAIN closed = 1 .. n
        /\ Len(back) = n
    BY <1>1 DEF Reverse
  <2>2. \A k \in 1 .. n : n - k + 1 \in 1 .. n /\ n - (n - k + 1) + 1 = k
    BY <1>1
  <2>3. n - 1 + 1 = n /\ n - n + 1 = 1 /\ 1 \in 1 .. n /\ n \in 1 .. n
    BY <1>1
  <2>. HIDE DEF n, back
  <2>4. back[1] = closed[n] /\ back[n] = closed[1]
    BY <2>1, <2>3
  <2>5. \A k \in 1 .. n : back[k] = closed[n - k + 1] /\ closed[k] = back[n - k + 1]
    BY <2>1, <2>2
  <2>6. {back[k] : k \in 1 .. n} = {closed[k] : k \in 1 .. n}
    <3>1. ASSUME NEW k \in 1 .. n
          PROVE  (\E l \in 1 .. n : back[k] = closed[l]) /\ (\E l \in 1 .. n : closed[k] = back[l])
      <4>. DEFINE l == n - k + 1
      <4>1. l \in 1 .. n /\ back[k] = closed[l] /\ closed[k] = back[l]
        BY <2>2, <2>5
      <4>. QED  BY <4>1
    <3>. DEFINE X == {back[k] : k \in 1 .. n}
                Y == {closed[k] : k \in 1 .. n}
    <3>2. \A k \in 1 .. n : back[k] \in Y /\ closed[k] \in X
      BY <3>1
    <3>3. (\A x \in X : \E k \in 1 .. n : x = back[k]) /\ (\A y \in Y : \E k \in 1 .. n : y = closed[k])
      OBVIOUS
    <3>. HIDE DEF X, Y
    <3>4. X \subseteq Y /\ Y \subseteq X
      BY <3>2, <3>3
    <3>5. X = Y
      BY <3>4
    <3>. QED  BY <3>5 DEF X, Y
  <2>. QED  BY <2>1, <2>4, <2>6
<1>4. sent = IF area = 0 \/ (area > 0) = ccw THEN closed ELSE back
  <2>1. Wire!Reverse(closed) = back
    BY DEF Wire!Reverse, Reverse
  <2>. HIDE DEF back
  <2>. QED  BY <2>1 DEF Wire!RewindRing, closed
<1>. HIDE DEF back, area, sent, n
<1>5. CASE area = 0 \/ (area > 0) = ccw
  <2>1. sent = closed
    BY <1>4, <1>5
  <2>2. IF ccw THEN area >= 0 ELSE area <= 0
    BY <1>2, <1>5
  <2>. QED  BY <1>1, <1>2, <2>1, <2>2 DEF area, n, sent
<1>6. CASE ~(area = 0 \/ (area > 0) = ccw)
  <2>1. sent = back
    BY <1>4, <1>6
  <2>2. IF ccw THEN -area >= 0 ELSE -area <= 0
    BY <1>2, <1>6
  <2>3. Wire!SignedArea(back) \in Int
    BY <1>2
  <2>. QED  BY <1>1, <1>2, <1>3, <2>1, <2>2, <2>3 DEF sent
<1>. QED  BY <1>5, <1>6

\* What enumerates the same numbers upwards is the same.
LEMMA SameAscent ==
  ASSUME NEW m \in Nat, NEW f \in [1 .. m -> Nat], NEW h \in [1 .. m -> Nat],
         \A k, l \in 1 .. m : k < l => f[k] < f[l] /\ h[k] < h[l],
         \A k \in 1 .. m : \E l \in 1 .. m : f[k] = h[l],
         \A k \in 1 .. m : \E l \in 1 .. m : h[k] = f[l]
  PROVE  \A k \in 1 .. m : f[k] = h[k]
<1>. DEFINE bad == {k \in 1 .. m : f[k] # h[k]}
<1>. SUFFICES ASSUME bad # {} PROVE FALSE
  OBVIOUS
<1>1. bad \subseteq Nat
  OBVIOUS
<1>. HIDE DEF bad
<1>2. PICK k \in bad : \A l \in bad : k <= l
  BY <1>1, HasLeast
<1>3. k \in 1 .. m /\ k \in Int /\ f[k] # h[k] /\ f[k] \in Int /\ h[k] \in Int
  BY DEF bad
<1>4. \A l \in 1 .. m : l < k => f[l] = h[l]
  BY <1>2, <1>3 DEF bad
<1>5. CASE f[k] < h[k]
  <2>1. PICK l \in 1 .. m : f[k] = h[l]
    BY <1>3
  <2>4. l \in Int
    OBVIOUS
  <2>2. l < k
    <3>1. k < l => h[k] < h[l]
      BY <1>3
    <3>2. l # k
      BY <1>3, <2>1
    <3>3. ~(k < l)
      BY <1>3, <1>5, <2>1, <3>1
    <3>. QED  BY <1>3, <2>4, <3>2, <3>3
  <2>3. f[l] = h[l] /\ f[l] < f[k]
    BY <1>3, <1>4, <2>2
  <2>. QED  BY <1>3, <2>1, <2>3
<1>6. CASE h[k] < f[k]
  <2>1. PICK l \in 1 .. m : h[k] = f[l]
    BY <1>3
  <2>4. l \in Int
    OBVIOUS
  <2>2. l < k
    <3>1. k < l => f[k] < f[l]
      BY <1>3
    <3>2. l # k
      BY <1>3, <2>1
    <3>3. ~(k < l)
      BY <1>3, <1>6, <2>1, <3>1
    <3>. QED  BY <1>3, <2>4, <3>2, <3>3
  <2>3. f[l] = h[l] /\ h[l] < h[k]
    BY <1>3, <1>4, <2>2
  <2>. QED  BY <1>3, <2>1, <2>3
<1>. QED  BY <1>3, <1>5, <1>6

\* To sift what was sifted more coarsely is to sift it once.
LEMMA SiftTwice ==
  ASSUME NEW s, NEW A, A \subseteq DOMAIN s, DOMAIN s \subseteq Nat, IsFiniteSet(A),
         NEW B, B \subseteq A
  PROVE  LET once == AtPlaces(s, A)
             D == {k \in DOMAIN once : Nth(A, k) \in B}
         IN AtPlaces(once, D) = AtPlaces(s, B)
<1>. DEFINE once == AtPlaces(s, A)
            D == {k \in DOMAIN once : Nth(A, k) \in B}
            n == Cardinality(A)
            m == Cardinality(B)
            g == [k \in D |-> Nth(A, k)]
<1>1. /\ n \in Nat /\ DOMAIN once = 1 .. n
      /\ \A k \in 1 .. n : Nth(A, k) \in A /\ once[k] = s[Nth(A, k)]
      /\ \A i \in A : \E k \in 1 .. n : Nth(A, k) = i
      /\ \A k, l \in 1 .. n : k < l => Nth(A, k) < Nth(A, l)
  <2>1. A \subseteq Nat
    OBVIOUS
  <2>. QED  BY <2>1, NthPlace DEF AtPlaces
<1>2. B \subseteq Nat /\ IsFiniteSet(B) /\ m \in Nat
  BY FS_Subset, FS_CardinalityType
<1>3. D \subseteq 1 .. n /\ D \subseteq Nat /\ IsFiniteSet(D)
  <2>1. D \subseteq 1 .. n /\ D \subseteq Nat
    BY <1>1
  <2>2. IsFiniteSet(1 .. n)
    BY <1>1, FS_Interval
  <2>. HIDE DEF D, n
  <2>. QED  BY <2>1, <2>2, FS_Subset
<1>4. \A k \in D : g[k] = Nth(A, k) /\ g[k] \in B
  BY <1>1
<1>5. \A i \in B : \E k \in D : g[k] = i
  BY <1>1
<1>6. \A k, l \in D : k < l => g[k] < g[l]
  BY <1>1, <1>3
<1>. HIDE DEF D, once, g
<1>7. Cardinality(D) = m
  <2>1. \A k, l \in D : g[k] = g[l] => k = l
    <3>0. \A k \in D : k \in Int /\ g[k] \in Int
      <4>1. \A k \in D : k \in Nat /\ g[k] \in Nat
        BY <1>2, <1>3, <1>4
      <4>. QED  BY <4>1
    <3>1. \A k, l \in D : (k < l \/ l < k \/ k = l) /\ g[k] \in Int
      BY <3>0
    <3>. QED  BY <1>6, <3>1
  <2>2. g \in Bijection(D, B)
    <3>1. g \in [D -> B]
      BY <1>4 DEF g
    <3>. QED  BY <1>5, <2>1, <3>1 DEF Bijection, Injection, Surjection, IsInjective
  <2>. HIDE DEF m
  <2>3. ExistsBijection(D, B)
    BY <2>2 DEF ExistsBijection
  <2>. QED  BY <1>3, <2>3, FS_Bijection DEF m
<1>. DEFINE f == [k \in 1 .. m |-> g[Nth(D, k)]]
            h == [k \in 1 .. m |-> Nth(B, k)]
<1>8. /\ \A k \in 1 .. m : Nth(D, k) \in D /\ Nth(B, k) \in B
      /\ \A i \in D : \E k \in 1 .. m : Nth(D, k) = i
      /\ \A i \in B : \E k \in 1 .. m : Nth(B, k) = i
      /\ \A k, l \in 1 .. m : k < l => Nth(D, k) < Nth(D, l) /\ Nth(B, k) < Nth(B, l)
  <2>1. /\ \A k \in 1 .. m : Nth(D, k) \in D
        /\ \A i \in D : \E k \in 1 .. m : Nth(D, k) = i
        /\ \A k, l \in 1 .. m : k < l => Nth(D, k) < Nth(D, l)
    BY <1>3, <1>7, NthPlace
  <2>2. /\ \A k \in 1 .. m : Nth(B, k) \in B
        /\ \A i \in B : \E k \in 1 .. m : Nth(B, k) = i
        /\ \A k, l \in 1 .. m : k < l => Nth(B, k) < Nth(B, l)
    BY <1>2, NthPlace
  <2>. QED  BY <2>1, <2>2
<1>. HIDE DEF m
<1>9. \A k \in 1 .. m : f[k] = h[k]
  <2>1. \A k \in 1 .. m : f[k] \in B /\ h[k] \in B
    BY <1>4, <1>8
  <2>2. \A k, l \in 1 .. m : k < l => f[k] < f[l] /\ h[k] < h[l]
    BY <1>6, <1>8
  <2>3. \A i \in B : \E k \in 1 .. m : f[k] = i
    <3>. SUFFICES ASSUME NEW i \in B PROVE \E k \in 1 .. m : f[k] = i
      OBVIOUS
    <3>1. PICK d \in D : g[d] = i
      BY <1>5
    <3>2. PICK k \in 1 .. m : Nth(D, k) = d
      BY <1>8
    <3>. QED  BY <3>1, <3>2
  <2>4. \A i \in B : \E k \in 1 .. m : h[k] = i
    BY <1>8
  <2>6. f \in [1 .. m -> Nat] /\ h \in [1 .. m -> Nat]
    BY <1>2, <2>1
  <2>. HIDE DEF f, h
  <2>5. /\ \A k \in 1 .. m : \E l \in 1 .. m : f[k] = h[l]
        /\ \A k \in 1 .. m : \E l \in 1 .. m : h[k] = f[l]
    BY <2>1, <2>3, <2>4
  <2>. QED  BY <1>2, <2>2, <2>5, <2>6, SameAscent
<1>10. \A k \in 1 .. m : once[Nth(D, k)] = s[Nth(B, k)]
  <2>. SUFFICES ASSUME NEW k \in 1 .. m PROVE once[Nth(D, k)] = s[Nth(B, k)]
    OBVIOUS
  <2>1. Nth(D, k) \in D /\ g[Nth(D, k)] = Nth(B, k)
    BY <1>8, <1>9
  <2>. QED  BY <1>1, <1>3, <1>4, <2>1
<1>. HIDE DEF f, h
<1>11. AtPlaces(once, D) = AtPlaces(s, B)
  BY <1>7, <1>10 DEF AtPlaces, m
<1>. QED  BY <1>11 DEF D, once

\* A geometry that can be drawn conforms as it is sent, and is the one there was.
LEMMA Drawn ==
  ASSUME NEW g, Authored!IsGeometry(g), Wire!IsDrawable(g)
  PROVE  LET sent == Wire!WireGeometry(g)
         IN /\ sent.type = g.type
            /\ DOMAIN sent.at = DOMAIN g.at
            /\ g.type # "Polygon" => sent = g
            /\ g.type = "Polygon" => \A i \in DOMAIN g.at :
                  LET ring == sent.at[i]
                  IN /\ ring[1] = ring[Len(ring)]
                     /\ Wire!SignedArea(ring) \in Int
                     /\ IF i = 1 THEN Wire!SignedArea(ring) >= 0 ELSE Wire!SignedArea(ring) <= 0
                     /\ Where!ToSet(ring) = Where!ToSet(g.at[i])
<1>. DEFINE sent == Wire!WireGeometry(g)
<1>1. CASE g.type # "Polygon"
  BY <1>1 DEF Wire!WireGeometry
<1>2. CASE g.type = "Polygon"
  <2>. DEFINE at == [i \in DOMAIN g.at |-> Wire!RewindRing(g.at[i], i = 1)]
  <2>1. sent.type = g.type /\ sent.at = at
    <3>1. g = [f \in {"type", "at"} |-> g[f]]
      BY DEF Authored!IsGeometry, Authored!HasFields
    <3>2. sent = [g EXCEPT !.at = at]
      BY <1>2 DEF Wire!WireGeometry, Wire!ToWirePolygon
    <3>. HIDE DEF at, sent
    <3>. QED  BY <3>1, <3>2
  <2>2. g.at \in Seq(Seq(Authored!Position))
    BY <1>2 DEF Authored!IsGeometry
  <2>3. ASSUME NEW i \in DOMAIN g.at
        PROVE  LET ring == at[i]
               IN /\ ring[1] = ring[Len(ring)]
                  /\ Wire!SignedArea(ring) \in Int
                  /\ IF i = 1 THEN Wire!SignedArea(ring) >= 0 ELSE Wire!SignedArea(ring) <= 0
                  /\ Where!ToSet(ring) = Where!ToSet(g.at[i])
    <3>. DEFINE traced == g.at[i]
                ccw == (i = 1)
                ring == Wire!RewindRing(traced, ccw)
    <3>1. traced \in Seq(Authored!Position)
      BY <2>2
    <3>2. Len(traced) >= 4 /\ \A k \in DOMAIN traced : Len(traced[k]) >= 2
      BY <1>2 DEF Wire!IsDrawable, Wire!All, Wire!IsPosition
    <3>3. ccw \in BOOLEAN /\ at[i] = ring
      OBVIOUS
    <3>. HIDE DEF traced, ccw
    <3>4. traced \in Seq(Seq(Int))
      BY <3>1 DEF Authored!Position
    <3>5. /\ ring[1] = ring[Len(ring)]
          /\ Wire!SignedArea(ring) \in Int
          /\ IF ccw THEN Wire!SignedArea(ring) >= 0 ELSE Wire!SignedArea(ring) <= 0
          /\ {ring[k] : k \in DOMAIN ring} = {traced[k] : k \in DOMAIN traced}
      BY <3>2, <3>3, <3>4, Rewound
    <3>. HIDE DEF ring, at
    <3>6. Where!ToSet(ring) = Where!ToSet(traced)
      BY <3>5 DEF Where!ToSet
    <3>. QED  BY <3>3, <3>5, <3>6 DEF ccw, traced
  <2>4. DOMAIN at = DOMAIN g.at
    OBVIOUS
  <2>. HIDE DEF at, sent
  <2>5. \A i \in DOMAIN g.at :
            LET ring == sent.at[i]
            IN /\ ring[1] = ring[Len(ring)]
               /\ Wire!SignedArea(ring) \in Int
               /\ IF i = 1 THEN Wire!SignedArea(ring) >= 0 ELSE Wire!SignedArea(ring) <= 0
               /\ Where!ToSet(ring) = Where!ToSet(g.at[i])
    BY <2>1, <2>3
  <2>6. sent.type = g.type /\ DOMAIN sent.at = DOMAIN g.at
    BY <2>1, <2>4
  <2>. QED  BY <1>2, <2>5, <2>6 DEF sent
<1>. QED  BY <1>1, <1>2

\* The campus map's copies of the operators are the same.
LEMMA SameArea ==
  ASSUME NEW ring
  PROVE  Campus!Wire!SignedArea(ring) = Wire!SignedArea(ring)
BY DEF Campus!Wire!SignedArea, Wire!SignedArea, Campus!Wire!Cross, Wire!Cross

LEMMA SameRewound ==
  ASSUME NEW ring, NEW ccw
  PROVE  Campus!Wire!RewindRing(ring, ccw) = Wire!RewindRing(ring, ccw)
<1>1. Campus!Wire!CloseRing(ring) = Wire!CloseRing(ring)
  BY DEF Campus!Wire!CloseRing, Campus!Wire!IsClosed, Wire!CloseRing, Wire!IsClosed
<1>2. Campus!Wire!SignedArea(Wire!CloseRing(ring)) = Wire!SignedArea(Wire!CloseRing(ring))
  BY SameArea
<1>3. Campus!Wire!Reverse(Wire!CloseRing(ring)) = Wire!Reverse(Wire!CloseRing(ring))
  BY DEF Campus!Wire!Reverse, Wire!Reverse
<1>. QED  BY <1>1, <1>2, <1>3 DEF Campus!Wire!RewindRing, Wire!RewindRing

LEMMA SameWireGeometry ==
  ASSUME NEW g
  PROVE  Campus!Wire!WireGeometry(g) = Wire!WireGeometry(g)
BY SameRewound DEF Campus!Wire!WireGeometry, Wire!WireGeometry,
                   Campus!Wire!ToWirePolygon, Wire!ToWirePolygon

\* So it conforms, in the words of the campus map.
LEMMA DrawnConforms ==
  ASSUME NEW g, Authored!IsGeometry(g), Wire!IsDrawable(g)
  PROVE  /\ Campus!Conforms(Wire!WireGeometry(g))
         /\ Campus!SameGeometry(Wire!WireGeometry(g), g)
<1>. DEFINE sent == Wire!WireGeometry(g)
<1>1. /\ sent.type = g.type
      /\ DOMAIN sent.at = DOMAIN g.at
      /\ g.type # "Polygon" => sent = g
      /\ g.type = "Polygon" => \A i \in DOMAIN g.at :
            LET ring == sent.at[i]
            IN /\ ring[1] = ring[Len(ring)]
               /\ Wire!SignedArea(ring) \in Int
               /\ IF i = 1 THEN Wire!SignedArea(ring) >= 0 ELSE Wire!SignedArea(ring) <= 0
               /\ Where!ToSet(ring) = Where!ToSet(g.at[i])
  BY Drawn
<1>. HIDE DEF sent
<1>2. ASSUME g.type = "Polygon", NEW i \in DOMAIN sent.at
      PROVE  Campus!Turns(sent.at[i], IF i = 1 THEN 1 ELSE -1)
  <2>. DEFINE ring == sent.at[i]
              area == Wire!SignedArea(ring)
  <2>1. /\ ring[1] = ring[Len(ring)] /\ area \in Int
        /\ IF i = 1 THEN area >= 0 ELSE area <= 0
    BY <1>1, <1>2
  <2>2. Campus!Wire!SignedArea(ring) = area
    BY SameArea
  <2>. HIDE DEF ring, area
  <2>3. (IF i = 1 THEN 1 ELSE -1) * area >= 0
    BY <2>1
  <2>. QED  BY <2>1, <2>2, <2>3 DEF Campus!Turns, ring
<1>3. Campus!Conforms(sent)
  BY <1>1, <1>2 DEF Campus!Conforms
<1>4. Campus!SameGeometry(sent, g)
  <2>1. CASE g.type # "Polygon"
    BY <1>1, <2>1 DEF Campus!SameGeometry
  <2>2. CASE g.type = "Polygon"
    <3>1. \A i \in DOMAIN sent.at : Where!ToSet(sent.at[i]) = Where!ToSet(g.at[i])
      BY <1>1, <2>2
    <3>2. ASSUME NEW i \in DOMAIN sent.at
          PROVE  {sent.at[i][k] : k \in DOMAIN sent.at[i]} = {g.at[i][k] : k \in DOMAIN g.at[i]}
      BY <3>1 DEF Where!ToSet
    <3>. QED  BY <1>1, <2>2, <3>2, Zenon DEF Campus!SameGeometry
  <2>. QED  BY <2>1, <2>2
<1>. QED  BY <1>3, <1>4 DEF sent

\* What the file's rules let through can be drawn.
LEMMA ValidIsDrawable ==
  ASSUME NEW g, Authored!IsGeometry(g), Authored!ValidGeometry(g)
  PROVE  Wire!IsDrawable(g)
<1>1. \A p \in Authored!Position : Authored!ValidPosition(p) => Wire!IsPosition(p)
  BY DEF Authored!Position, Authored!ValidPosition, Wire!IsPosition
<1>2. CASE g.type = "LineString"
  <2>1. /\ g.at \in Seq(Authored!Position) /\ Len(g.at) >= 2
        /\ \A k \in DOMAIN g.at : Authored!ValidPosition(g.at[k])
    BY <1>2 DEF Authored!IsGeometry, Authored!ValidGeometry, Authored!All
  <2>2. \A k \in DOMAIN g.at : Wire!IsPosition(g.at[k])
    BY <1>1, <2>1
  <2>. QED  BY <1>2, <2>1, <2>2 DEF Wire!IsDrawable, Wire!All
<1>3. CASE g.type = "Polygon"
  <2>1. /\ g.at \in Seq(Seq(Authored!Position)) /\ g.at # <<>>
        /\ \A i \in DOMAIN g.at : Authored!ValidRing(g.at[i])
    BY <1>3 DEF Authored!IsGeometry, Authored!ValidGeometry, Authored!All
  <2>2. ASSUME NEW i \in DOMAIN g.at
        PROVE  Len(g.at[i]) >= 4 /\ \A k \in DOMAIN g.at[i] : Wire!IsPosition(g.at[i][k])
    <3>. DEFINE ring == g.at[i]
    <3>1. ring \in Seq(Authored!Position)
      BY <2>1
    <3>2. Len(ring) >= 4 /\ \A k \in DOMAIN ring : Authored!ValidPosition(ring[k])
      BY <2>1 DEF Authored!ValidRing, Authored!All
    <3>. HIDE DEF ring
    <3>3. \A k \in DOMAIN ring : Wire!IsPosition(ring[k])
      BY <1>1, <3>1, <3>2
    <3>. QED  BY <3>2, <3>3 DEF ring
  <2>. QED  BY <1>3, <2>1, <2>2 DEF Wire!IsDrawable, Wire!All
<1>. QED  BY <1>2, <1>3 DEF Authored!ValidGeometry

LEMMA ShapesServed ==
  ASSUME NEW buildings, NEW T, NEW shapes \in Seq(T), Campus!AreShapes(Where!ToSet(shapes)),
         NEW others, Campus!AreShapes(others), NEW fail \in BOOLEAN
  PROVE  Campus!ShapesServed(buildings, shapes, others, fail)
<1>. DEFINE stored == {shapes[i] : i \in DOMAIN shapes} \cup others
            sentMap == Campus!CampusOverlays(buildings, stored, fail)
<1>1. \A doc \in stored : Authored!IsGeometry(doc.geometry)
  <2>1. \A g : Campus!File!IsGeometry(g) => Authored!IsGeometry(g)
    BY DEF Campus!File!IsGeometry, Authored!IsGeometry, Campus!File!HasFields,
           Authored!HasFields, Campus!File!Position, Authored!Position
  <2>. QED  BY <2>1 DEF Campus!AreShapes, Where!ToSet
<1>2. \A doc \in stored : Campus!Wire!IsDrawable(doc.geometry) => Wire!IsDrawable(doc.geometry)
  BY DEF Campus!Wire!IsDrawable, Campus!Wire!IsPosition, Campus!Wire!All,
         Wire!IsDrawable, Wire!IsPosition, Wire!All
<1>3. sentMap.overlays = Campus!BuildingOverlays(buildings)
                        \cup IF fail THEN {} ELSE Campus!ShapeOverlays(stored)
  BY DEF Campus!CampusOverlays
<1>4. ASSUME NEW o \in Campus!BuildingOverlays(buildings)
      PROVE  o.layerId \in Campus!BaseLayers /\ Campus!Conforms(o.geometry)
  <2>1. \E id, at, layer, tap : /\ layer \in {"building_numbers", "building_labels"}
                                /\ o = Campus!Marker(id, at, layer, tap)
    BY DEF Campus!BuildingOverlays, Campus!Fallback, Campus!OfBuilding
  <2>2. /\ o.layerId \in {"building_numbers", "building_labels"}
        /\ o.geometry.type = "Point"
    BY <2>1 DEF Campus!Marker
  <2>. QED  BY <2>2 DEF Campus!BaseLayers, Campus!Conforms
<1>5. ASSUME NEW doc \in stored, Campus!Shown(doc)
      PROVE  /\ doc.layerId \in Campus!BaseLayers
             /\ Campus!Conforms(Campus!Wire!WireGeometry(doc.geometry))
             /\ Campus!SameGeometry(Campus!Wire!WireGeometry(doc.geometry), doc.geometry)
  <2>1. doc.layerId \in Campus!BaseLayers /\ Wire!IsDrawable(doc.geometry)
    BY <1>2, <1>5 DEF Campus!Shown
  <2>2. Authored!IsGeometry(doc.geometry)
    BY <1>1
  <2>. QED  BY <2>1, <2>2, SameWireGeometry, DrawnConforms
<1>6. ASSUME NEW o \in Campus!ShapeOverlays(stored)
      PROVE  o.layerId \in Campus!BaseLayers /\ Campus!Conforms(o.geometry)
  <2>1. PICK doc \in stored : /\ Campus!Shown(doc)
                            /\ o.layerId = doc.layerId
                            /\ o.geometry = Campus!Wire!WireGeometry(doc.geometry)
    BY DEF Campus!ShapeOverlays
  <2>. HIDE DEF stored
  <2>. QED  BY <1>5, <2>1
<1>7. ASSUME Campus!ValidShapes(shapes), ~fail, NEW i \in DOMAIN shapes,
             shapes[i].layerId \in Campus!BaseLayers
      PROVE  \E o \in sentMap.overlays : /\ o.id = shapes[i].id
                                        /\ o.layerId = shapes[i].layerId
                                        /\ Campus!SameGeometry(o.geometry, shapes[i].geometry)
  <2>. DEFINE doc == shapes[i]
              o == [id |-> doc.id, kind |-> Campus!Kind(doc.geometry), layerId |-> doc.layerId,
                    tap |-> doc.skkuId, geometry |-> Campus!Wire!WireGeometry(doc.geometry)]
  <2>1. Campus!ValidShape(doc) /\ doc \in stored
    BY <1>7 DEF Campus!ValidShapes
  <2>2. Authored!IsGeometry(doc.geometry)
    BY <1>1, <2>1
  <2>3. Campus!File!ValidGeometry(doc.geometry) /\ doc.title = "ko"
    BY <2>1 DEF Campus!ValidShape, Campus!File!ValidText
  <2>4. Authored!ValidGeometry(doc.geometry)
    BY <2>3 DEF Campus!File!ValidGeometry, Campus!File!All, Campus!File!ValidRing,
                Campus!File!ValidPosition, Authored!ValidGeometry, Authored!All,
                Authored!ValidRing, Authored!ValidPosition
  <2>5. Wire!IsDrawable(doc.geometry)
    BY <2>2, <2>4, ValidIsDrawable
  <2>6. Campus!Shown(doc)
    <3>1. Campus!Wire!IsDrawable(doc.geometry)
      BY <2>5 DEF Campus!Wire!IsDrawable, Campus!Wire!IsPosition, Campus!Wire!All,
                  Wire!IsDrawable, Wire!IsPosition, Wire!All
    <3>. QED  BY <1>7, <2>3, <3>1 DEF Campus!Shown
  <2>7. o \in Campus!ShapeOverlays(stored)
    <3>. HIDE DEF stored, doc
    <3>. QED  BY <2>1, <2>6 DEF Campus!ShapeOverlays
  <2>8. o.id = doc.id /\ o.layerId = doc.layerId
        /\ o.geometry = Campus!Wire!WireGeometry(doc.geometry)
    OBVIOUS
  <2>9. Campus!SameGeometry(o.geometry, doc.geometry)
    <3>. HIDE DEF stored, doc, o
    <3>. QED  BY <1>5, <2>1, <2>6, <2>8
  <2>10. o \in sentMap.overlays
    <3>. HIDE DEF o, stored, sentMap
    <3>. QED  BY <1>3, <1>7, <2>7
  <2>. HIDE DEF o, sentMap
  <2>. QED  BY <2>8, <2>9, <2>10
<1>. HIDE DEF sentMap
<1>8. Campus!BuildingOverlays(buildings) \subseteq sentMap.overlays
  BY <1>3
<1>9. \A o \in sentMap.overlays : o.layerId \in Campus!BaseLayers /\ Campus!Conforms(o.geometry)
  BY <1>3, <1>4, <1>6
<1>. QED  BY <1>7, <1>8, <1>9 DEF Campus!ShapesServed, sentMap

\* Where every place is left the sequence is unchanged, in the words of the routes.
LEMMA SameSiftWire ==
  ASSUME NEW s, NEW S
  PROVE  Wire!AtPlaces(s, S) = AtPlaces(s, S)
<1>1. \A T : Wire!Cardinality(T) = Cardinality(T)
  BY DEF Wire!Cardinality, Cardinality
<1>2. \A k : Wire!Nth(S, k) = Nth(S, k)
  BY <1>1 DEF Wire!Nth, Nth
<1>. QED  BY <1>1, <1>2 DEF Wire!AtPlaces, AtPlaces

\* Whatever button the import accepts, the card drops it only for a route, a page or
\* an address the server cannot open.
LEMMA ButtonUsable ==
  ASSUME NEW a, Authored!ValidAction(a)
  PROVE  Wire!HasAnyText(a.label) /\ Wire!IsValidActionValue(a) <=> Sendable(a)
<1>1. a.label = "ko" /\ a.value.form # "blank"
  BY DEF Authored!ValidAction, Authored!ValidText
<1>2. CASE a.type = "content"
  BY <1>1, <1>2 DEF Wire!IsValidActionValue, Wire!HasAnyText, Sendable
<1>3. CASE a.type = "miniapp"
  <2>1. Authored!ValidTarget(a.value)
    BY <1>3 DEF Authored!ValidAction
  <2>. QED  BY <1>1, <1>3, <2>1 DEF Wire!IsValidActionValue, Wire!HasAnyText, Sendable,
               Wire!IsKnownMiniAppTarget, Authored!ValidTarget
<1>4. CASE a.type \notin {"content", "miniapp"}
  BY <1>1, <1>4 DEF Wire!HasAnyText, Sendable
<1>. QED  BY <1>2, <1>3, <1>4

LEMMA ButtonsKept ==
  ASSUME NEW buttons, NEW doc, doc.actions = buttons,
         \A i \in DOMAIN buttons : Authored!ValidAction(buttons[i])
  PROVE  Wire!WireActions(doc) = Sift(buttons, Sendable)
<1>. DEFINE A == {i \in DOMAIN buttons : Wire!HasAnyText(buttons[i].label)
                                         /\ Wire!IsValidActionValue(buttons[i])}
            B == {i \in DOMAIN buttons : Sendable(buttons[i])}
            sent == Wire!WireActions(doc)
<1>1. sent = Wire!AtPlaces(buttons, A)
  BY DEF Wire!WireActions, Wire!Sift
<1>2. A = B
  BY ButtonUsable
<1>3. Sift(buttons, Sendable) = AtPlaces(buttons, B)
  BY DEF Sift
<1>. HIDE DEF sent, A, B
<1>4. Wire!AtPlaces(buttons, A) = AtPlaces(buttons, A)
  BY SameSiftWire
<1>5. sent = Sift(buttons, Sendable)
  BY <1>1, <1>2, <1>3, <1>4
<1>. QED  BY <1>5 DEF sent

\* A sheet without an error is sent as it is.
LEMMA BlockUsable ==
  ASSUME NEW b, Authored!ValidBlock(b)
  PROVE  Wire!UsableBlock(b)
<1>1. b.id # "blank" /\ b.type \in {"text", "list", "table", "image", "notice"}
  BY DEF Authored!ValidBlock, Authored!BlockTypes
<1>2. CASE b.type = "text"
  BY <1>1, <1>2 DEF Authored!ValidBlock, Authored!ValidText, Wire!UsableBlock, Wire!HasAnyText
<1>3. CASE b.type \in {"list", "table", "notice"}
  <2>1. b.items # <<>> /\ \A i \in DOMAIN b.items : Authored!ValidItem(b.type, b.items[i])
    BY <1>3 DEF Authored!ValidBlock, Authored!All
  <2>2. Wire!UsableItems(b)
    BY <2>1 DEF Wire!UsableItems, Wire!All, Wire!HasAnyText, Authored!ValidItem,
                Authored!ValidText
  <2>. QED  BY <1>1, <1>3, <2>2 DEF Wire!UsableBlock
<1>4. CASE b.type = "image"
  <2>1. Authored!IsMediaUrl(b.url)
    BY <1>4 DEF Authored!ValidBlock
  <2>2. Wire!IsMediaUrl(b.url)
    BY <2>1 DEF Authored!IsMediaUrl, Wire!IsMediaUrl
  <2>. QED  BY <1>1, <1>4, <2>2 DEF Wire!UsableBlock
<1>. QED  BY <1>1, <1>2, <1>3, <1>4

LEMMA ActionUsable ==
  ASSUME NEW a, Authored!ValidDetailAction(a),
         Authored!HasFields(a, {"id", "type", "label", "unknownKey", "url", "post"})
  PROVE  Wire!UsableAction(a) /\ Wire!WirePost(a, Authored!NoUrl) = a
<1>1. /\ a.id # "blank" /\ a.label = "ko"
      /\ \/ /\ a.type = "instagram"
            /\ Authored!IsInstagramProfileUrl(a.url)
            /\ a.post = Authored!NoUrl \/ Authored!IsInstagramPostUrl(a.post)
         \/ /\ a.type = "link"
            /\ Authored!IsAbsoluteHttpsUrl(a.url)
            /\ a.post = Authored!NoUrl
  BY DEF Authored!ValidDetailAction, Authored!ValidText
<1>2. \A u : /\ Authored!IsAbsoluteHttpsUrl(u) => Wire!IsAbsoluteHttpsUrl(u)
             /\ Authored!IsInstagramProfileUrl(u) => Wire!IsInstagramProfileUrl(u)
             /\ Authored!IsInstagramPostUrl(u) => Wire!IsInstagramPostUrl(u)
  BY DEF Authored!IsAbsoluteHttpsUrl, Authored!IsInstagramProfileUrl,
         Authored!IsInstagramPostUrl, Authored!Instagram, Authored!Reserved,
         Wire!IsAbsoluteHttpsUrl, Wire!IsInstagramProfileUrl, Wire!IsInstagramPostUrl,
         Wire!Instagram, Wire!Reserved
<1>3. Wire!UsableAction(a)
  BY <1>1, <1>2 DEF Wire!UsableAction, Wire!HasAnyText
<1>4. a.post = Authored!NoUrl \/ Wire!IsInstagramPostUrl(a.post)
  BY <1>1, <1>2
<1>. DEFINE none == Authored!NoUrl
<1>. HIDE DEF none
<1>5. a.post = none => [a EXCEPT !.post = none] = a
  BY DEF Authored!HasFields
<1>6. Wire!WirePost(a, none) = a
  BY <1>4, <1>5 DEF Wire!WirePost, none
<1>. QED  BY <1>3, <1>6 DEF none

LEMMA SheetWhole ==
  ASSUME NEW d, d # Authored!NoDetail, Authored!IsSheet(d), Authored!ValidDetail(d)
  PROVE  Wire!ReadableDetail(d) /\ Wire!WireDetail(d, Authored!NoUrl) = d
<1>. DEFINE none == Authored!NoUrl
            actions == d.actions
            blocks == d.blocks
            A == {i \in DOMAIN actions : Wire!UsableAction(actions[i])}
            B == {i \in DOMAIN blocks : Wire!UsableBlock(blocks[i])}
            usable == Wire!AtPlaces(actions, A)
            left == Wire!AtPlaces(blocks, B)
            posts == [i \in DOMAIN usable |-> Wire!WirePost(usable[i], none)]
<1>1. Wire!ReadableDetail(d)
  BY DEF Authored!ValidDetail, Wire!ReadableDetail, Wire!Kinds, Authored!Kinds
<1>2. /\ \A i \in DOMAIN actions : Authored!ValidDetailAction(actions[i])
      /\ \A i \in DOMAIN blocks : Authored!ValidBlock(blocks[i])
  BY DEF Authored!ValidDetail, Authored!All
<1>3. /\ actions \in Seq(Authored!ToSet(actions)) /\ blocks \in Seq(Authored!ToSet(blocks))
      /\ \A i \in DOMAIN actions :
            Authored!HasFields(actions[i], {"id", "type", "label", "unknownKey", "url", "post"})
      /\ Authored!HasFields(d, {"kind", "unknownKey", "org", "actions", "blocks"})
  BY DEF Authored!IsSheet, Authored!All
<1>4. Wire!WireDetail(d, none) = [d EXCEPT !.blocks = left, !.actions = posts]
  BY DEF Wire!WireDetail, Wire!Sift
<1>. HIDE DEF actions, blocks, none
<1>5. \A i \in DOMAIN actions :
         Wire!UsableAction(actions[i]) /\ Wire!WirePost(actions[i], none) = actions[i]
  BY <1>2, <1>3, ActionUsable DEF none
<1>6. A = DOMAIN actions /\ B = DOMAIN blocks
  BY <1>2, <1>5, BlockUsable
<1>. HIDE DEF A, B
<1>7. usable = actions /\ left = blocks
  <2>1. AtPlaces(actions, DOMAIN actions) = actions /\ AtPlaces(blocks, DOMAIN blocks) = blocks
    BY <1>3, SiftAll
  <2>. QED  BY <1>6, <2>1, SameSiftWire
<1>8. posts = actions
  <2>. DEFINE T == Authored!ToSet(actions)
  <2>. HIDE DEF usable, T
  <2>1. actions \in Seq(T)
    BY <1>3 DEF T
  <2>2. actions = [i \in DOMAIN actions |-> actions[i]]
    BY <2>1
  <2>. QED  BY <1>5, <1>7, <2>2
<1>. HIDE DEF usable, left, posts
<1>9. [d EXCEPT !.blocks = blocks, !.actions = actions] = d
  BY <1>3 DEF Authored!HasFields, actions, blocks
<1>10. Wire!WireDetail(d, none) = d
  BY <1>4, <1>7, <1>8, <1>9
<1>. QED  BY <1>1, <1>10 DEF none

\* A place of the file, wherever it is in it and whatever its category shows.
LEMMA ServedWhole ==
  ASSUME NEW c, NEW file, NEW i \in DOMAIN file.places, Authored!IsPlace(file.places[i]),
         Authored!ValidPlace(file.places[i]), Authored!UniqueIds(file.places)
  PROVE  PlaceServed(file, file.places[i], c)
<1>. DEFINE p == file.places[i]
            stored == Authored!Documents(file)
            doc == Authored!Document(file, p)
            shownAs == [k \in {d.category : d \in stored} |-> Map!PresentationFor(c, k)]
            shown == shownAs[doc.category]
            o == Wire!Overlay(doc, shown)
            overlays == {q \in Wire!Overlays(stored, shownAs) : q.id = doc._id}
            details == {d \in Wire!Details(stored, shownAs, Authored!NoDetail, Authored!NoUrl) :
                           d.id = doc._id}
<1>1. doc \in stored
  BY DEF Authored!Documents
<1>. HIDE DEF shownAs
<1>2. Authored!IsPlace(p) /\ Authored!ValidPlace(p)
  OBVIOUS
<1>12. ASSUME NEW e \in stored, e._id = doc._id PROVE e = doc
  <2>1. PICK j \in DOMAIN file.places : e = Authored!Document(file, file.places[j])
    BY <1>12 DEF Authored!Documents
  <2>2. file.places[j].id = file.places[i].id
    BY <1>12, <2>1 DEF Authored!Document
  <2>. QED  BY <2>1, <2>2 DEF Authored!UniqueIds
<1>. HIDE DEF p
<1>3. /\ doc.location = Authored!Location(p) /\ doc.title = p.title /\ doc.hours = p.hours
      /\ doc.subtitle = p.subtitle /\ doc.fields = p.fields /\ doc.order = p.order
      /\ doc.actions = p.actions /\ doc.detail = p.detail
  BY DEF Authored!Document
<1>. HIDE DEF stored, doc, shown
<1>4. Authored!IsGeometry(doc.location) /\ Wire!IsDrawable(doc.location)
  <2>1. /\ p.point \in Authored!Position /\ Authored!IsGeometry(p.geometry)
        /\ Authored!ValidPlacing(p)
    BY <1>2 DEF Authored!IsPlace, Authored!ValidPlace
  <2>2. CASE p.geometry = Authored!NoGeometry
    <3>. DEFINE at == p.point
    <3>1. doc.location = [type |-> "Point", at |-> at] /\ Authored!ValidPosition(at)
      BY <1>3, <2>1, <2>2 DEF Authored!Location, Authored!ValidPlacing
    <3>. HIDE DEF at
    <3>2. at \in Authored!Position
      BY <2>1 DEF at
    <3>3. Wire!IsPosition(at)
      BY <3>1, <3>2 DEF Authored!Position, Authored!ValidPosition, Wire!IsPosition
    <3>. QED  BY <3>1, <3>2, <3>3 DEF Authored!IsGeometry, Authored!HasFields, Wire!IsDrawable
  <2>3. CASE p.geometry # Authored!NoGeometry
    <3>1. doc.location = p.geometry /\ Authored!ValidGeometry(p.geometry)
      BY <1>3, <2>1, <2>3 DEF Authored!Location, Authored!ValidPlacing
    <3>. QED  BY <2>1, <3>1, ValidIsDrawable
  <2>. QED  BY <2>2, <2>3
<1>5. Wire!IsRenderable(doc)
  <2>1. p.title = "ko" /\ Authored!ValidHours(p.hours)
    BY <1>2 DEF Authored!ValidPlace, Authored!ValidText
  <2>2. p.hours \in Seq([start : Int, end : Int])
    BY <1>2 DEF Authored!IsPlace
  <2>3. ASSUME NEW k \in DOMAIN p.hours
        PROVE  p.hours[k].start >= 0 /\ p.hours[k].end >= -1
    <3>. DEFINE w == p.hours[k]
    <3>1. w \in [start : Int, end : Int]
      <4>. DEFINE H == [start : Int, end : Int]
                  hours == p.hours
      <4>1. hours \in Seq(H) /\ k \in DOMAIN hours
        BY <2>2
      <4>. HIDE DEF H, hours
      <4>2. hours[k] \in H
        BY <4>1
      <4>. QED  BY <4>2 DEF H, hours
    <3>2. Authored!ValidWindow(w)
      BY <2>1 DEF Authored!ValidHours, Authored!All
    <3>. HIDE DEF w
    <3>3. w.start \in Int /\ w.end \in Int
      BY <3>1
    <3>. QED  BY <3>2, <3>3 DEF Authored!ValidWindow, Authored!Malformed, Authored!Absent, w
  <2>. QED  BY <1>3, <1>4, <2>1, <2>3 DEF Wire!IsRenderable, Wire!All, Wire!HasAnyText
<1>6. overlays = {o}
  <2>1. ASSUME NEW q \in overlays PROVE q = o
    <3>1. PICK e \in stored : q = Wire!Overlay(e, shownAs[e.category])
      BY <2>1 DEF Wire!Overlays
    <3>2. e._id = doc._id
      BY <2>1, <3>1 DEF Wire!Overlay
    <3>. QED  BY <1>12, <3>1, <3>2 DEF shown
  <2>2. o \in Wire!Overlays(stored, shownAs)
    BY <1>1, <1>5 DEF Wire!Overlays, shown
  <2>3. o.id = doc._id
    BY DEF Wire!Overlay
  <2>. QED  BY <2>1, <2>2, <2>3
<1>7. /\ o.id = doc._id /\ o.hours = p.hours /\ o.order = p.order
      /\ o.geometry = Wire!WireGeometry(doc.location)
      /\ o.actions = Wire!WireActions(doc)
      /\ o.tap = Wire!Tap(doc, shown)
  BY <1>3 DEF Wire!Overlay
<1>13. /\ o.text = p.title
       /\ o.subtitle = IF p.subtitle = "absent" THEN None ELSE p.subtitle
  <2>1. p.title = "ko" /\ p.subtitle \in {"absent", "ko"}
    BY <1>2 DEF Authored!ValidPlace, Authored!ValidText, Authored!ValidOptionalText
  <2>. QED  BY <1>3, <2>1 DEF Wire!Overlay, Wire!ToWire, Wire!HasAnyText
<1>14. o.fields = p.fields
  <2>. DEFINE fields == p.fields
              F == [label : {"ko"}, value : {"ko"}]
              sent == [k \in DOMAIN fields |-> [label |-> Wire!ToWire(fields[k].label),
                                               value |-> Wire!ToWire(fields[k].value)]]
  <2>1. \A k \in DOMAIN fields : fields[k].label = "ko" /\ fields[k].value = "ko"
    BY <1>2 DEF Authored!ValidPlace, Authored!ValidFields, Authored!All, Authored!ValidText
  <2>2. fields \in Seq([label : STRING, value : STRING])
    BY <1>2 DEF Authored!IsPlace
  <2>3. o.fields = sent
    BY <1>3 DEF Wire!Overlay
  <2>. HIDE DEF fields
  <2>4. \A k \in DOMAIN fields : fields[k] = [label |-> "ko", value |-> "ko"]
    <3>. DEFINE T == [label : STRING, value : STRING]
    <3>. SUFFICES ASSUME NEW k \in DOMAIN fields PROVE fields[k] = [label |-> "ko", value |-> "ko"]
      OBVIOUS
    <3>2. fields \in Seq(T)
      BY <2>2
    <3>. HIDE DEF T
    <3>1. fields[k] \in T
      BY <3>2
    <3>. QED  BY <2>1, <3>1 DEF T
  <2>5. \A k \in DOMAIN fields : sent[k] = fields[k]
    BY <2>1, <2>4 DEF Wire!ToWire, Wire!HasAnyText
  <2>6. sent = [k \in DOMAIN fields |-> fields[k]]
    BY <2>5
  <2>7. fields = [k \in DOMAIN fields |-> fields[k]]
    BY <2>2
  <2>. QED  BY <2>3, <2>6, <2>7 DEF fields
<1>15. details = IF p.detail # Authored!NoDetail /\ Wire!OpensSheet(shown)
                THEN {[id |-> doc._id, detail |-> p.detail]} ELSE {}
  <2>. DEFINE d == p.detail
  <2>1. ASSUME NEW x \in details
        PROVE  /\ doc.detail # Authored!NoDetail /\ Wire!OpensSheet(shown)
               /\ x = [id |-> doc._id, detail |-> Wire!WireDetail(doc.detail, Authored!NoUrl)]
    <3>1. PICK e \in stored : /\ e.detail # Authored!NoDetail
                              /\ Wire!OpensSheet(shownAs[e.category])
                              /\ x = [id |-> e._id, detail |-> Wire!WireDetail(e.detail, Authored!NoUrl)]
      BY <2>1 DEF Wire!Details
    <3>2. e = doc
      BY <1>12, <2>1, <3>1
    <3>. QED  BY <3>1, <3>2 DEF shown
  <2>2. CASE d = Authored!NoDetail \/ ~Wire!OpensSheet(shown)
    BY <1>3, <2>1, <2>2
  <2>3. CASE d # Authored!NoDetail /\ Wire!OpensSheet(shown)
    <3>1. Authored!IsSheet(d) /\ Authored!ValidDetail(d)
      BY <1>2, <2>3 DEF Authored!IsPlace, Authored!ValidPlace
    <3>2. Wire!ReadableDetail(d) /\ Wire!WireDetail(d, Authored!NoUrl) = d
      BY <2>3, <3>1, SheetWhole
    <3>. HIDE DEF d
    <3>3. doc.detail = d
      BY <1>3 DEF d
    <3>4. [id |-> doc._id, detail |-> Wire!WireDetail(doc.detail, Authored!NoUrl)] \in
             Wire!Details(stored, shownAs, Authored!NoDetail, Authored!NoUrl)
      BY <1>1, <1>5, <2>3, <3>2, <3>3 DEF Wire!Details, shown
    <3>5. [id |-> doc._id, detail |-> d] \in details
      BY <3>2, <3>3, <3>4
    <3>6. \A x \in details : x = [id |-> doc._id, detail |-> d]
      BY <2>1, <3>2, <3>3
    <3>7. details = {[id |-> doc._id, detail |-> d]}
      <4>. HIDE DEF details
      <4>. QED  BY <3>5, <3>6
    <3>. QED  BY <2>3, <3>7 DEF d
  <2>. QED  BY <2>2, <2>3
<1>16. o.tap = [kind |-> "event", placeId |-> o.id] <=> Wire!OpensSheet(shown)
  BY <1>7 DEF Wire!Tap, Wire!NoTap
<1>. HIDE DEF o, overlays, details
<1>8. Campus!Conforms(o.geometry) /\ Campus!SameGeometry(o.geometry, doc.location)
  BY <1>4, <1>7, DrawnConforms
<1>9. o.actions = Sift(p.actions, Sendable)
  <2>. DEFINE buttons == p.actions
  <2>1. doc.actions = buttons /\ \A k \in DOMAIN buttons : Authored!ValidAction(buttons[k])
    BY <1>2, <1>3 DEF Authored!ValidPlace, Authored!All
  <2>. HIDE DEF buttons
  <2>2. Wire!WireActions(doc) = Sift(buttons, Sendable)
    BY <2>1, ButtonsKept
  <2>. QED  BY <1>7, <2>2 DEF buttons
<1>17. details = IF p.detail # Authored!NoDetail /\ o.tap = [kind |-> "event", placeId |-> o.id]
                THEN {[id |-> o.id, detail |-> p.detail]} ELSE {}
  BY <1>7, <1>15, <1>16
<1>18. /\ overlays = {o}
       /\ Campus!Conforms(o.geometry) /\ Campus!SameGeometry(o.geometry, doc.location)
       /\ o.text = p.title
       /\ o.subtitle = IF p.subtitle = "absent" THEN None ELSE p.subtitle
       /\ o.hours = p.hours /\ o.fields = p.fields /\ o.order = p.order
       /\ o.actions = Sift(p.actions, Sendable)
  BY <1>6, <1>7, <1>8, <1>9, <1>13, <1>14
<1>. QED  BY <1>17, <1>18 DEF PlaceServed, stored, doc, p, shownAs, overlays, details

\* An import that was accepted is on the map, whatever places and shapes it names,
\* whatever else is in the collection and whatever the presentations: its sheets where
\* their categories open them (ImportedIsServed of any file and structure file).
THEOREM ImportedOfAnyFile ==
  ASSUME asked.of = "places" =>
            \A i \in DOMAIN asked.file.places : Authored!IsPlace(asked.file.places[i]),
         asked.of = "campus" =>
            /\ IsList(asked.shapes) /\ asked.fail \in BOOLEAN
            /\ Campus!AreShapes(Where!ToSet(asked.shapes))
            /\ Campus!AreShapes(asked.others)
  PROVE  ImportedIsServed
<1>1. ASSUME asked.of = "places", Authored!ValidFile(asked.file, "set"),
             NEW i \in DOMAIN asked.file.places
      PROVE  PlaceServed(asked.file, asked.file.places[i], asked.c)
  <2>1. /\ Authored!IsPlace(asked.file.places[i]) /\ Authored!ValidPlace(asked.file.places[i])
        /\ Authored!UniqueIds(asked.file.places)
    BY <1>1 DEF Authored!ValidFile, Authored!All
  <2>. QED  BY <2>1, ServedWhole
<1>2. ASSUME asked.of = "campus"
      PROVE  Campus!ShapesServed(asked.buildings, asked.shapes, asked.others, asked.fail)
  <2>. DEFINE S == Where!ToSet(asked.shapes)
              shapes == asked.shapes
  <2>1. shapes \in Seq(S) /\ Campus!AreShapes(Where!ToSet(shapes))
    BY <1>2 DEF IsList
  <2>. HIDE DEF S, shapes
  <2>2. Campus!ShapesServed(asked.buildings, shapes, asked.others, asked.fail)
    BY <1>2, <2>1, ShapesServed
  <2>. QED  BY <2>2 DEF shapes
<1>. QED  BY <1>1, <1>2 DEF ImportedIsServed

\* So the runs' own files are served so, in every state.
THEOREM ImportedAlwaysServed == AskSpec => []ImportedIsServed
<1>. DEFINE Asks == /\ asked.of = "places" => asked.file \in FestivalFiles
                    /\ asked.of = "campus" => /\ asked.shapes \in ShapeLists
                                              /\ asked.others \in OtherShapes
                                              /\ asked.fail \in BOOLEAN
<1>1. AskInit => Asks
  BY DEF AskInit, Question
<1>2. Asks /\ [Ask]_asked => Asks'
  <2>1. SUFFICES ASSUME Asks, [Ask]_asked PROVE Asks'
    OBVIOUS
  <2>2. CASE UNCHANGED asked
    BY <2>1, <2>2
  <2>3. CASE asked' = Question
    BY <2>3 DEF Question
  <2>4. CASE AskPlaces
    BY <2>4 DEF AskPlaces
  <2>5. CASE AskCampus
    BY <2>5 DEF AskCampus
  <2>6. CASE asked'.of \notin {"places", "campus"}
    BY <2>6
  <2>7. \/ AskMap \/ AskWeek \/ AskTabs \/ AskApps \/ AskJongro \/ AskEtas \/ AskHssc
        \/ AskRooms \/ AskHouses \/ AskFloors \/ AskWays \/ AskHome \/ AskBanners
        \/ AskNotice
        => asked'.of \notin {"places", "campus"}
    BY DEF AskMap, AskWeek, AskTabs, AskApps, AskJongro, AskEtas, AskHssc, AskRooms,
           AskHouses, AskFloors, AskWays, AskHome, AskBanners, AskNotice
  <2>. HIDE DEF Asks
  <2>. QED  BY <2>1, <2>2, <2>3, <2>4, <2>5, <2>6, <2>7 DEF Ask
<1>3. Asks => ImportedIsServed
  <2>1. ASSUME Asks, asked.of = "places", NEW i \in DOMAIN asked.file.places
        PROVE  Authored!IsPlace(asked.file.places[i])
    BY <2>1, InputsInShape DEF Where!ToSet
  <2>2. Asks /\ asked.of = "campus" =>
           /\ IsList(asked.shapes) /\ asked.fail \in BOOLEAN
           /\ Campus!AreShapes(Where!ToSet(asked.shapes))
           /\ Campus!AreShapes(asked.others)
    BY InputsInShape
  <2>. HIDE DEF Asks
  <2>. QED  BY <2>1, <2>2, ImportedOfAnyFile
<1>. HIDE DEF Asks
<1>. QED  BY <1>1, <1>2, <1>3, PTL DEF AskSpec
=============================================================================
