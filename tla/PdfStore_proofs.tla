--------------------------- MODULE PdfStore_proofs ---------------------------
(***************************************************************************)
(* Why downloads of PdfStore fail, for any number of instances, documents  *)
(* and deployments.  A failure is explained by what the stores answered    *)
(* earlier, so the invariant says what is known while a download is under  *)
(* way: its document has a link and can only expire, and a download with   *)
(* the secure store on reaches dm-store only when the secure store did not *)
(* hold the document, or failed it.                                        *)
(***************************************************************************)
EXTENDS PdfStore, TLAPS

\* What is asked for was stored once; nothing stores it again.
WantedIsLinked ==
    \A i \in Instances : at[i] # "idle" => wanted[i] \in link

FallbackExplained ==
    \A i \in Instances :
        /\ at[i] = "secure" => secure[i]
        /\ at[i] \in {"metadata", "binary"} /\ secure[i] /\ ~outage[i] =>
              holder[wanted[i]] # "secure"

Inv == TypeOK /\ WantedIsLinked /\ FallbackExplained /\ FailedDownloadsExplained

\* Nothing is under way or stored.
LEMMA InitEstablishes == Init => Inv
  <1> SUFFICES ASSUME Init PROVE Inv
    OBVIOUS
  <1>1. TypeOK
    BY ChangesAssumption DEF Init, TypeOK
  <1>2. \A i \in Instances : at[i] = "idle"
    BY DEF Init
  <1> QED BY <1>1, <1>2 DEF Inv, WantedIsLinked, FallbackExplained, FailedDownloadsExplained, Returned, InDownload

LEMMA ChangeFlagPreserves ==
    ASSUME Inv, NEW i \in Instances, ChangeFlag(i)
    PROVE  Inv'
  <1> USE DEF Inv, ChangeFlag
  <1>1. TypeOK'
    BY ChangesAssumption DEF TypeOK
  <1>2. \A j \in Instances : (at'[j] = at[j] /\ secure'[j] = secure[j]) \/ at'[j] = "idle"
    BY DEF TypeOK
  <1>3. UNCHANGED <<holder, link, wanted, outage, refused>>
    OBVIOUS
  <1>4. WantedIsLinked'
    BY <1>2, <1>3 DEF WantedIsLinked
  <1>5. FallbackExplained'
    BY <1>2, <1>3 DEF FallbackExplained
  <1>6. FailedDownloadsExplained'
    BY <1>2, <1>3 DEF FailedDownloadsExplained
  <1> QED BY <1>1, <1>4, <1>5, <1>6

\* A document that expires is held by no store.
LEMMA ExpirePreserves ==
    ASSUME Inv, NEW d \in Documents, Expire(d)
    PROVE  Inv'
  <1> USE DEF Inv, Expire, download
  <1>1. TypeOK'
    BY DEF TypeOK
  <1>2. \A e \in Documents : holder'[e] = holder[e] \/ holder'[e] = "none"
    BY DEF TypeOK
  <1>3. \A i \in Instances : wanted[i] \in Documents
    BY DEF TypeOK
  <1>4. WantedIsLinked'
    BY DEF WantedIsLinked
  <1>5. FallbackExplained'
    BY <1>2, <1>3 DEF FallbackExplained
  <1>6. FailedDownloadsExplained'
    BY <1>2, <1>3 DEF FailedDownloadsExplained
  <1> QED BY <1>1, <1>4, <1>5, <1>6

\* An upload is of a document that has no link yet, which nobody waits for.
LEMMA UploadPreserves ==
    ASSUME Inv, NEW i \in Instances, NEW d \in Documents, Upload(i, d)
    PROVE  Inv'
  <1> USE DEF Inv, Upload, download
  <1>1. TypeOK'
    BY DEF TypeOK
  <1>2. /\ d \notin link /\ link \subseteq link'
        /\ \A e \in link : holder'[e] = holder[e]
    BY DEF TypeOK
  <1>3. WantedIsLinked'
    BY <1>2 DEF WantedIsLinked
  <1>4. \A j \in Instances : at[j] # "idle" => holder'[wanted[j]] = holder[wanted[j]]
    BY <1>2 DEF WantedIsLinked
  <1>5. UNCHANGED <<at, secure, wanted, outage, refused>>
    OBVIOUS
  <1>6. FallbackExplained'
    BY <1>4, <1>5 DEF FallbackExplained
  <1>7. FailedDownloadsExplained'
    BY <1>4, <1>5 DEF FailedDownloadsExplained
  <1> QED BY <1>1, <1>3, <1>6, <1>7

LEMMA BeginDownloadPreserves ==
    ASSUME Inv, NEW i \in Instances, NEW d \in Documents, BeginDownload(i, d)
    PROVE  Inv'
  <1> USE DEF Inv, BeginDownload
  <1>1. TypeOK'
    BY DEF TypeOK, InDownload
  <1>2. \A j \in Instances \ {i} :
           UNCHANGED <<at[j], wanted[j], outage[j], refused[j]>>
    BY DEF TypeOK
  <1>3. /\ wanted'[i] = d /\ d \in link /\ UNCHANGED <<secure, holder, link>>
        /\ at'[i] = IF secure[i] THEN "secure" ELSE "metadata"
    BY DEF TypeOK
  <1>4. WantedIsLinked'
    BY <1>2, <1>3 DEF WantedIsLinked
  <1>5. FallbackExplained'
    BY <1>2, <1>3 DEF FallbackExplained
  <1>6. FailedDownloadsExplained'
    BY <1>2, <1>3 DEF FailedDownloadsExplained
  <1> QED BY <1>1, <1>4, <1>5, <1>6

\* What an answer to an instance that downloads means for the history.
LEMMA AnswerFacts ==
    ASSUME TypeOK, NEW i \in Instances, NEW store \in {"dm", "secure"},
           NEW answer \in {"content", "no_body"} \cup Failures,
           Answered(i, store, answer)
    PROVE  /\ outage' \in [Instances -> BOOLEAN]
           /\ refused' \in [Instances -> SUBSET ({"dm", "secure"} \X Failures)]
           /\ \A j \in Instances \ {i} : UNCHANGED <<outage[j], refused[j]>>
           /\ outage[i] => outage'[i]
           /\ refused[i] \subseteq refused'[i]
           /\ holder[wanted[i]] = store /\ answer \in Failures => outage'[i]
           /\ holder[wanted[i]] # store =>
                 answer \in Failures /\ <<store, answer>> \in refused'[i]
  <1> DEFINE holds == holder[wanted[i]] = store
  <1>1. answer \in {"content", "no_body"} => holds
    BY DEF Answered
  <1>2. outage' = [outage EXCEPT ![i] = @ \/ (holds /\ answer \in Failures)]
    BY DEF Answered
  <1>3. refused' = [refused EXCEPT ![i] = IF holds THEN @ ELSE @ \cup {<<store, answer>>}]
    BY DEF Answered
  <1>4. outage \in [Instances -> BOOLEAN]
        /\ refused \in [Instances -> SUBSET ({"dm", "secure"} \X Failures)]
    BY DEF TypeOK
  <1>5. outage' \in [Instances -> BOOLEAN] /\ \A j \in Instances \ {i} : UNCHANGED outage[j]
    BY <1>2, <1>4
  <1>6. (outage[i] => outage'[i]) /\ (holds /\ answer \in Failures => outage'[i])
    BY <1>2, <1>4
  <1>7. ~holds => <<store, answer>> \in {"dm", "secure"} \X Failures
    BY <1>1
  <1>8. /\ refused' \in [Instances -> SUBSET ({"dm", "secure"} \X Failures)]
        /\ \A j \in Instances \ {i} : UNCHANGED refused[j]
        /\ refused[i] \subseteq refused'[i]
        /\ ~holds => <<store, answer>> \in refused'[i]
    BY <1>3, <1>4, <1>7
  <1> QED BY <1>1, <1>5, <1>6, <1>8

\* With the secure store on, dm-store is asked after a FeignException, which
\* is an outage when the secure store holds the document.
LEMMA FromSecureStorePreserves ==
    ASSUME Inv, NEW i \in Instances, FromSecureStore(i)
    PROVE  Inv'
  <1> USE DEF Inv
  <1>1. PICK answer \in {"content", "no_body"} \cup Failures :
           /\ Answered(i, "secure", answer)
           /\ at' = [at EXCEPT ![i] =
                        IF answer \notin Failures THEN BytesOf(answer)
                        ELSE IF SecureStore(answer) = "feign_error" THEN "metadata"
                        ELSE "thrown"]
    BY DEF FromSecureStore
  <1>2. at[i] = "secure" /\ UNCHANGED <<secure, changes, holder, link, wanted>>
    BY DEF FromSecureStore
  <1>3. /\ outage' \in [Instances -> BOOLEAN]
        /\ refused' \in [Instances -> SUBSET ({"dm", "secure"} \X Failures)]
        /\ \A j \in Instances \ {i} : UNCHANGED <<outage[j], refused[j]>>
        /\ outage[i] => outage'[i]
        /\ holder[wanted[i]] = "secure" /\ answer \in Failures => outage'[i]
        /\ holder[wanted[i]] # "secure" =>
              answer \in Failures /\ <<"secure", answer>> \in refused'[i]
    BY <1>1, AnswerFacts
  <1>4. \A j \in Instances \ {i} : at'[j] = at[j]
    BY <1>1
  <1>5. /\ at'[i] \in Returned \cup {"metadata", "thrown"}
        /\ at'[i] = "metadata" => answer = "feign_error"
        /\ at'[i] = "thrown" => answer \in Failures \ {"feign_error"}
    BY <1>1 DEF TypeOK, BytesOf, SecureStore, Failures, Returned
  <1>6. TypeOK'
    BY <1>1, <1>2, <1>3, <1>5 DEF TypeOK, InDownload
  <1>7. WantedIsLinked'
    BY <1>2, <1>4 DEF WantedIsLinked
  <1>8. FallbackExplained'
    BY <1>2, <1>3, <1>4, <1>5 DEF FallbackExplained, Returned, Failures
  <1>9. FailedDownloadsExplained'
    BY <1>2, <1>3, <1>4, <1>5 DEF FailedDownloadsExplained, FallbackExplained, Returned, Failures
  <1> QED BY <1>6, <1>7, <1>8, <1>9

\* dm-store has the last word.
LEMMA FromDmStorePreserves ==
    ASSUME Inv, NEW i \in Instances, FromDmStore(i)
    PROVE  Inv'
  <1> USE DEF Inv
  <1>1. PICK answer \in {"content", "no_body"} \cup Failures :
           /\ Answered(i, "dm", answer)
           /\ at' = [at EXCEPT ![i] =
                        IF answer \in Failures THEN "thrown"
                        ELSE IF at[i] = "metadata" THEN "binary"
                        ELSE BytesOf(answer)]
    BY DEF FromDmStore
  <1>2. at[i] \in {"metadata", "binary"} /\ UNCHANGED <<secure, changes, holder, link, wanted>>
    BY DEF FromDmStore
  <1>3. /\ outage' \in [Instances -> BOOLEAN]
        /\ refused' \in [Instances -> SUBSET ({"dm", "secure"} \X Failures)]
        /\ \A j \in Instances \ {i} : UNCHANGED <<outage[j], refused[j]>>
        /\ outage[i] => outage'[i]
        /\ holder[wanted[i]] = "dm" /\ answer \in Failures => outage'[i]
    BY <1>1, AnswerFacts
  <1>4. \A j \in Instances \ {i} : at'[j] = at[j]
    BY <1>1
  <1>5. /\ at'[i] \in Returned \cup {"binary", "thrown"}
        /\ at'[i] = "thrown" => answer \in Failures
    BY <1>1 DEF TypeOK, BytesOf, Returned
  <1>6. TypeOK'
    BY <1>1, <1>2, <1>3, <1>5 DEF TypeOK, InDownload
  <1>7. WantedIsLinked'
    BY <1>2, <1>4 DEF WantedIsLinked
  <1>8. FallbackExplained'
    BY <1>2, <1>3, <1>4, <1>5 DEF FallbackExplained, Returned
  <1>9. FailedDownloadsExplained'
    BY <1>2, <1>3, <1>4, <1>5 DEF FailedDownloadsExplained, FallbackExplained, Returned
  <1> QED BY <1>6, <1>7, <1>8, <1>9

LEMMA StepPreserves == Inv /\ [Next]_vars => Inv'
  <1> SUFFICES ASSUME Inv, [Next]_vars PROVE Inv'
    OBVIOUS
  <1>1. CASE UNCHANGED vars
    BY <1>1 DEF Inv, TypeOK, WantedIsLinked, FallbackExplained, FailedDownloadsExplained,
                vars, download
  <1>2. ASSUME NEW i \in Instances, ChangeFlag(i) PROVE Inv'
    BY <1>2, ChangeFlagPreserves
  <1>3. ASSUME NEW i \in Instances, FromSecureStore(i) PROVE Inv'
    BY <1>3, FromSecureStorePreserves
  <1>4. ASSUME NEW i \in Instances, FromDmStore(i) PROVE Inv'
    BY <1>4, FromDmStorePreserves
  <1>5. ASSUME NEW i \in Instances, NEW d \in Documents, Upload(i, d) PROVE Inv'
    BY <1>5, UploadPreserves
  <1>6. ASSUME NEW i \in Instances, NEW d \in Documents, BeginDownload(i, d) PROVE Inv'
    BY <1>6, BeginDownloadPreserves
  <1>7. ASSUME NEW d \in Documents, Expire(d) PROVE Inv'
    BY <1>7, ExpirePreserves
  <1> QED BY <1>1, <1>2, <1>3, <1>4, <1>5, <1>6, <1>7 DEF Next

LEMMA Invariance == Spec => []Inv
  <1> QED BY InitEstablishes, StepPreserves, PTL DEF Spec
-----------------------------------------------------------------------------
(* Theorems *)

\* Instances, stores and downloads keep their shape, however many there are.
THEOREM StoreTypeCorrect == Spec => []TypeOK
  <1>1. Inv => TypeOK
    BY DEF Inv
  <1> QED BY Invariance, <1>1, PTL

\* A download that the store of its document did not fail goes wrong only in
\* the three gaps of PdfStoreService.download, for any number of instances
\* that are switched any number of times, and any failure of any call.
THEOREM FailedDownloadsSafe == Spec => []FailedDownloadsExplained
  <1>1. Inv => FailedDownloadsExplained
    BY DEF Inv
  <1> QED BY Invariance, <1>1, PTL
=============================================================================
