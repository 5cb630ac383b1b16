------------------------ MODULE PluginRegistryProofs ------------------------
(***************************************************************************)
(* Proofs that the plugin registry keeps RegistryInv, and with it the      *)
(* uniqueness of names and the cleanup of status and status items, for     *)
(* every set of connections, names and status items.                       *)
(***************************************************************************)
EXTENDS PluginRegistry, TLAPS

USE DEF connVars, dbVars, bounds, history

\* The initial state satisfies the inductive invariant.
LEMMA RegistryInit == Init => RegistryInv
  <1> SUFFICES ASSUME Init PROVE RegistryInv
    BY Zenon
  <1>1. TypeOK
    <2>1. NoMsg \in StatusMessages
      BY Zenon DEF NoMsg, StatusMessages
    <2>2. /\ registrations \in [Connections -> 0..MaxRegistrations]
          /\ statusMsgs \in [Connections -> 0..MaxStatusMsgs]
          /\ restarts \in 0..MaxRestarts
      BY RegistryAssumption DEF Init
    <2> QED BY Zenon, <2>1, <2>2 DEF Init, TypeOK, PCs, Statuses
  <1>2. \A n \in Names : Holders(n) = {}
    BY Zenon DEF Init, Holders
  <1>3. UniqueName /\ HeldNamesReserved
    BY Zenon, <1>2 DEF UniqueName, HeldNamesReserved
  <1>4. RegisteredUnderManifest /\ RunningHasOwner /\ ItemsHaveOwner
    BY Zenon DEF Init, RegisteredUnderManifest, RunningHasOwner, ItemsHaveOwner, Live,
           ShownAlive,
           Running
  <1> QED BY Zenon, <1>1, <1>3, <1>4 DEF RegistryInv

\* Every step keeps the variables in their domains.
LEMMA TypeStep ==
  ASSUME RegistryInv, [Next]_vars
  PROVE  TypeOK'
  <1> USE DEF RegistryInv, TypeOK, PCs, Registering, Destroying, Statuses
  <1>1. ASSUME NEW c \in Connections, NEW n \in Names, Connect(c, n)
        PROVE  TypeOK'
    BY Zenon, <1>1 DEF Connect, Goto
  <1>2. ASSUME NEW c \in Connections, ReserveName(c)
        PROVE  TypeOK'
    <2>1. manifest[c] \in Names
      BY Zenon, <1>2 DEF ReserveName, Goto, RegisteredUnderManifest, Live
    <2>2. registrations' \in [Connections -> 0..MaxRegistrations]
      BY <1>2, RegistryAssumption DEF ReserveName, CountRegistration
    <2> QED BY Zenon, <1>2, <2>1, <2>2 DEF ReserveName, Goto
  <1>3. ASSUME NEW c \in Connections, RejectDuplicate(c)
        PROVE  TypeOK'
    BY <1>3, RegistryAssumption DEF RejectDuplicate, Goto, CountRegistration
  <1>4. ASSUME NEW c \in Connections, StoreInDatabase(c)
        PROVE  TypeOK'
    BY Zenon, <1>4 DEF StoreInDatabase, Goto
  <1>5. ASSUME NEW c \in Connections, StoreFails(c)
        PROVE  TypeOK'
    BY Zenon, <1>5 DEF StoreFails, Goto
  <1>6. ASSUME NEW c \in Connections, Publish(c)
        PROVE  TypeOK'
    BY Zenon, <1>6 DEF Publish, Goto
  <1>7. ASSUME NEW c \in Connections, SetRunning(c)
        PROVE  TypeOK'
    BY Zenon, <1>7 DEF SetRunning, Goto
  <1>8. ASSUME NEW c \in Connections, SetRunningFails(c)
        PROVE  TypeOK'
    BY Zenon, <1>8 DEF SetRunningFails, Goto
  <1>9. ASSUME NEW c \in Connections, Subscribe(c)
        PROVE  TypeOK'
    BY Zenon, <1>9 DEF Subscribe, Goto
  <1>10. ASSUME NEW c \in Connections, NEW m \in StatusMessages, TakeStatusMessage(c, m)
        PROVE  TypeOK'
    BY <1>10, RegistryAssumption DEF TakeStatusMessage, Goto
  <1>11. ASSUME NEW c \in Connections, SetStatusItems(c)
        PROVE  TypeOK'
    BY Zenon, <1>11 DEF SetStatusItems, Goto, StatusMessages
  <1>12. ASSUME NEW c \in Connections, RemoveStatusItems(c)
        PROVE  TypeOK'
    BY Zenon, <1>12 DEF RemoveStatusItems, Goto, StatusMessages, NoMsg
  <1>13. ASSUME NEW c \in Connections, StatusItemsFail(c)
        PROVE  TypeOK'
    BY ZenonT(60), <1>13 DEF StatusItemsFail, Goto, StatusMessages, NoMsg
  <1>14. ASSUME NEW c \in Connections, Close(c)
        PROVE  TypeOK'
    BY Zenon, <1>14 DEF Close, Goto, SlowJoined
  <1>15. ASSUME NEW c \in Connections, ReleaseName(c)
        PROVE  TypeOK'
    BY Zenon, <1>15 DEF ReleaseName, Goto, OwnName
  <1>16. ASSUME NEW c \in Connections, Unsubscribe(c)
        PROVE  TypeOK'
    BY Zenon, <1>16 DEF Unsubscribe, Goto
  <1>17. ASSUME NEW c \in Connections, SetStopped(c)
        PROVE  TypeOK'
    BY Zenon, <1>17 DEF SetStopped, Goto
  <1>18. ASSUME NEW c \in Connections, SetStoppedFails(c)
        PROVE  TypeOK'
    BY Zenon, <1>18 DEF SetStoppedFails, Goto
  <1>19. ASSUME NEW c \in Connections, ClearItems(c)
        PROVE  TypeOK'
    BY <1>19, RegistryAssumption DEF ClearItems, Goto, Forget
  <1>20. ASSUME NEW c \in Connections, ClearItemsFails(c)
        PROVE  TypeOK'
    BY <1>20, RegistryAssumption DEF ClearItemsFails, Goto, Forget
  <1>21. CASE HandleSignal
    BY Zenon, <1>21 DEF HandleSignal, AllStopped
  <1>22. CASE Restart
    <2>1. NoMsg \in StatusMessages
      BY Zenon DEF NoMsg, StatusMessages
    <2>2. /\ registrations' \in [Connections -> 0..MaxRegistrations]
          /\ statusMsgs' \in [Connections -> 0..MaxStatusMsgs]
          /\ restarts' \in 0..MaxRestarts
      BY <1>22, RegistryAssumption DEF Restart
    <2>3. status' \in [Names -> Statuses]
      BY Zenon, <1>22 DEF Restart, StatusesAtStart, AllStopped
    <2>4. pc' \in [Connections -> PCs]
      BY Zenon, <1>22 DEF Restart
    <2> QED BY Zenon, <1>22, <2>1, <2>2, <2>3, <2>4 DEF Restart
  <1>23. CASE UNCHANGED vars
    BY SMTT(30), <1>23 DEF vars
  <1> QED BY ZenonT(30), <1>1, <1>2, <1>3, <1>4, <1>5, <1>6, <1>7, <1>8,
     <1>9, <1>10, <1>11, <1>12, <1>13, <1>14, <1>15, <1>16,
     <1>17, <1>18, <1>19, <1>20, <1>21, <1>22, <1>23 DEF Next

\* Every step keeps the reservations consistent: the one release of a name is by
\* the only connection that holds it.
LEMMA NameStep ==
  ASSUME RegistryInv, [Next]_vars
  PROVE  UniqueName' /\ HeldNamesReserved' /\ RegisteredUnderManifest'
  <1> USE DEF RegistryInv, UniqueName, HeldNamesReserved,
              RegisteredUnderManifest, Holders, Live, Running, TypeOK,
              Registering, Destroying, PCs
  <1>1. ASSUME NEW c \in Connections, NEW n \in Names, Connect(c, n)
        PROVE  UniqueName' /\ HeldNamesReserved' /\ RegisteredUnderManifest'
    BY <1>1 DEF Connect, Goto
  <1>2. ASSUME NEW c \in Connections, ReserveName(c)
        PROVE  UniqueName' /\ HeldNamesReserved' /\ RegisteredUnderManifest'
    BY <1>2 DEF ReserveName, Goto, CountRegistration, NameFree
  <1>3. ASSUME NEW c \in Connections, RejectDuplicate(c)
        PROVE  UniqueName' /\ HeldNamesReserved' /\ RegisteredUnderManifest'
    BY <1>3 DEF RejectDuplicate, Goto, CountRegistration
  <1>4. ASSUME NEW c \in Connections, StoreInDatabase(c)
        PROVE  UniqueName' /\ HeldNamesReserved' /\ RegisteredUnderManifest'
    BY <1>4 DEF StoreInDatabase, Goto
  <1>5. ASSUME NEW c \in Connections, StoreFails(c)
        PROVE  UniqueName' /\ HeldNamesReserved' /\ RegisteredUnderManifest'
    BY <1>5 DEF StoreFails, Goto
  <1>6. ASSUME NEW c \in Connections, Publish(c)
        PROVE  UniqueName' /\ HeldNamesReserved' /\ RegisteredUnderManifest'
    BY <1>6 DEF Publish, Goto
  <1>7. ASSUME NEW c \in Connections, SetRunning(c)
        PROVE  UniqueName' /\ HeldNamesReserved' /\ RegisteredUnderManifest'
    BY SMTT(30), <1>7 DEF SetRunning, Goto
  <1>8. ASSUME NEW c \in Connections, SetRunningFails(c)
        PROVE  UniqueName' /\ HeldNamesReserved' /\ RegisteredUnderManifest'
    BY SMTT(30), <1>8 DEF SetRunningFails, Goto
  <1>9. ASSUME NEW c \in Connections, Subscribe(c)
        PROVE  UniqueName' /\ HeldNamesReserved' /\ RegisteredUnderManifest'
    BY SMTT(30), <1>9 DEF Subscribe, Goto
  <1>10. ASSUME NEW c \in Connections, NEW m \in StatusMessages, TakeStatusMessage(c, m)
        PROVE  UniqueName' /\ HeldNamesReserved' /\ RegisteredUnderManifest'
    BY SMTT(30), <1>10 DEF TakeStatusMessage, Goto
  <1>11. ASSUME NEW c \in Connections, SetStatusItems(c)
        PROVE  UniqueName' /\ HeldNamesReserved' /\ RegisteredUnderManifest'
    BY SMTT(30), <1>11 DEF SetStatusItems, Goto, StatusMessages
  <1>12. ASSUME NEW c \in Connections, RemoveStatusItems(c)
        PROVE  UniqueName' /\ HeldNamesReserved' /\ RegisteredUnderManifest'
    BY SMTT(30), <1>12 DEF RemoveStatusItems, Goto, StatusMessages, NoMsg
  <1>13. ASSUME NEW c \in Connections, StatusItemsFail(c)
        PROVE  UniqueName' /\ HeldNamesReserved' /\ RegisteredUnderManifest'
    BY SMTT(30), <1>13 DEF StatusItemsFail, Goto, StatusMessages, NoMsg
  <1>14. ASSUME NEW c \in Connections, Close(c)
        PROVE  UniqueName' /\ HeldNamesReserved' /\ RegisteredUnderManifest'
    BY SMTT(30), <1>14 DEF Close, Goto, SlowJoined
  <1>15. ASSUME NEW c \in Connections, ReleaseName(c)
        PROVE  UniqueName' /\ HeldNamesReserved' /\ RegisteredUnderManifest'
    BY SMTT(30), <1>15, RegistryAssumption DEF ReleaseName, Goto, OwnName
  <1>16. ASSUME NEW c \in Connections, Unsubscribe(c)
        PROVE  UniqueName' /\ HeldNamesReserved' /\ RegisteredUnderManifest'
    BY SMTT(30), <1>16 DEF Unsubscribe, Goto
  <1>17. ASSUME NEW c \in Connections, SetStopped(c)
        PROVE  UniqueName' /\ HeldNamesReserved' /\ RegisteredUnderManifest'
    BY SMTT(30), <1>17 DEF SetStopped, Goto
  <1>18. ASSUME NEW c \in Connections, SetStoppedFails(c)
        PROVE  UniqueName' /\ HeldNamesReserved' /\ RegisteredUnderManifest'
    BY SMTT(30), <1>18 DEF SetStoppedFails, Goto
  <1>19. ASSUME NEW c \in Connections, ClearItems(c)
        PROVE  UniqueName' /\ HeldNamesReserved' /\ RegisteredUnderManifest'
    BY SMTT(30), <1>19 DEF ClearItems, Goto, Forget
  <1>20. ASSUME NEW c \in Connections, ClearItemsFails(c)
        PROVE  UniqueName' /\ HeldNamesReserved' /\ RegisteredUnderManifest'
    BY SMTT(30), <1>20 DEF ClearItemsFails, Goto, Forget
  <1>21. CASE HandleSignal
    BY SMTT(30), <1>21 DEF HandleSignal, AllStopped
  <1>22. CASE Restart
    BY SMTT(30), <1>22 DEF Restart, AllStopped, StatusesAtStart
  <1>23. CASE UNCHANGED vars
    BY SMTT(30), <1>23 DEF vars
  <1> QED BY ZenonT(30), <1>1, <1>2, <1>3, <1>4, <1>5, <1>6, <1>7, <1>8,
     <1>9, <1>10, <1>11, <1>12, <1>13, <1>14, <1>15, <1>16,
     <1>17, <1>18, <1>19, <1>20, <1>21, <1>22, <1>23 DEF Next

\* Every step leaves an owner to each running status and each status item.
LEMMA OwnerStep ==
  ASSUME RegistryInv, [Next]_vars
  PROVE  RunningHasOwner' /\ ItemsHaveOwner'
  <1> USE DEF RegistryInv, RunningHasOwner, ShownAlive, ItemsHaveOwner,
              RegisteredUnderManifest, Live, Running, TypeOK, Registering,
              Destroying, PCs
  <1>1. ASSUME NEW c \in Connections, NEW n \in Names, Connect(c, n)
        PROVE  RunningHasOwner' /\ ItemsHaveOwner'
    BY <1>1 DEF Connect, Goto
  <1>2. ASSUME NEW c \in Connections, ReserveName(c)
        PROVE  RunningHasOwner' /\ ItemsHaveOwner'
    <2>1. ~mRegistered[c]
      BY <1>2 DEF ReserveName, Goto, NameFree, HeldNamesReserved, Holders
    <2> QED BY <1>2, <2>1 DEF ReserveName, Goto
  <1>3. ASSUME NEW c \in Connections, RejectDuplicate(c)
        PROVE  RunningHasOwner' /\ ItemsHaveOwner'
    BY <1>3 DEF RejectDuplicate, Goto, CountRegistration
  <1>4. ASSUME NEW c \in Connections, StoreInDatabase(c)
        PROVE  RunningHasOwner' /\ ItemsHaveOwner'
    BY SMTT(30), <1>4 DEF StoreInDatabase, Goto
  <1>5. ASSUME NEW c \in Connections, StoreFails(c)
        PROVE  RunningHasOwner' /\ ItemsHaveOwner'
    BY Zenon, <1>5 DEF StoreFails, Goto
  <1>6. ASSUME NEW c \in Connections, Publish(c)
        PROVE  RunningHasOwner' /\ ItemsHaveOwner'
    BY SMTT(30), <1>6 DEF Publish, Goto
  <1>7. ASSUME NEW c \in Connections, SetRunning(c)
        PROVE  RunningHasOwner' /\ ItemsHaveOwner'
    BY SMTT(30), <1>7 DEF SetRunning, Goto
  <1>8. ASSUME NEW c \in Connections, SetRunningFails(c)
        PROVE  RunningHasOwner' /\ ItemsHaveOwner'
    BY Zenon, <1>8 DEF SetRunningFails, Goto
  <1>9. ASSUME NEW c \in Connections, Subscribe(c)
        PROVE  RunningHasOwner' /\ ItemsHaveOwner'
    BY SMTT(30), <1>9 DEF Subscribe, Goto
  <1>10. ASSUME NEW c \in Connections, NEW m \in StatusMessages, TakeStatusMessage(c, m)
        PROVE  RunningHasOwner' /\ ItemsHaveOwner'
    BY SMTT(30), <1>10 DEF TakeStatusMessage, Goto
  <1>11. ASSUME NEW c \in Connections, SetStatusItems(c)
        PROVE  RunningHasOwner' /\ ItemsHaveOwner'
    BY SMTT(30), <1>11 DEF SetStatusItems, Goto, StatusMessages
  <1>12. ASSUME NEW c \in Connections, RemoveStatusItems(c)
        PROVE  RunningHasOwner' /\ ItemsHaveOwner'
    <2>1. RunningHasOwner'
      BY SMTT(30), <1>12 DEF RemoveStatusItems
    <2>2. \A n \in Names : items'[n] # {} => items[n] # {}
      BY <1>12 DEF RemoveStatusItems
    <2> QED BY <1>12, <2>1, <2>2 DEF RemoveStatusItems
  <1>13. ASSUME NEW c \in Connections, StatusItemsFail(c)
        PROVE  RunningHasOwner' /\ ItemsHaveOwner'
    BY Zenon, <1>13 DEF StatusItemsFail, Goto, StatusMessages, NoMsg
  <1>14. ASSUME NEW c \in Connections, Close(c)
        PROVE  RunningHasOwner' /\ ItemsHaveOwner'
    BY SMTT(30), <1>14 DEF Close, Goto, SlowJoined
  <1>15. ASSUME NEW c \in Connections, ReleaseName(c)
        PROVE  RunningHasOwner' /\ ItemsHaveOwner'
    BY SMTT(30), <1>15 DEF ReleaseName, Goto, OwnName
  <1>16. ASSUME NEW c \in Connections, Unsubscribe(c)
        PROVE  RunningHasOwner' /\ ItemsHaveOwner'
    BY SMTT(30), <1>16 DEF Unsubscribe, Goto
  <1>17. ASSUME NEW c \in Connections, SetStopped(c)
        PROVE  RunningHasOwner' /\ ItemsHaveOwner'
    BY SMTT(30), <1>17 DEF SetStopped, Goto
  <1>18. ASSUME NEW c \in Connections, SetStoppedFails(c)
        PROVE  RunningHasOwner' /\ ItemsHaveOwner'
    BY Zenon, <1>18 DEF SetStoppedFails, Goto
  <1>19. ASSUME NEW c \in Connections, ClearItems(c)
        PROVE  RunningHasOwner' /\ ItemsHaveOwner'
    BY SMTT(30), <1>19 DEF ClearItems, Goto, Forget
  <1>20. ASSUME NEW c \in Connections, ClearItemsFails(c)
        PROVE  RunningHasOwner' /\ ItemsHaveOwner'
    BY Zenon, <1>20 DEF ClearItemsFails, Goto, Forget
  <1>21. CASE HandleSignal
    BY Zenon, <1>21 DEF HandleSignal, AllStopped
  <1>22. CASE Restart
    BY SMTT(30), <1>22 DEF Restart, AllStopped, StatusesAtStart
  <1>23. CASE UNCHANGED vars
    BY SMTT(30), <1>23 DEF vars
  <1> QED BY ZenonT(30), <1>1, <1>2, <1>3, <1>4, <1>5, <1>6, <1>7, <1>8,
     <1>9, <1>10, <1>11, <1>12, <1>13, <1>14, <1>15, <1>16,
     <1>17, <1>18, <1>19, <1>20, <1>21, <1>22, <1>23 DEF Next

\* Every step keeps a holder for each reserved name, until a database error, and
\* counts no refusal of a name without one before it.
LEMMA RefusalStep ==
  ASSUME RegistryInv, ReservedNamesHeld, RefusedOnlyIfHeld, [Next]_vars
  PROVE  ReservedNamesHeld' /\ RefusedOnlyIfHeld'
  <1> USE DEF RegistryInv, ReservedNamesHeld, RefusedOnlyIfHeld, UniqueName,
              HeldNamesReserved, RegisteredUnderManifest, Holders, Live, Running,
              TypeOK, Registering, Destroying, PCs
  <1>1. ASSUME NEW c \in Connections, NEW n \in Names, Connect(c, n)
        PROVE  ReservedNamesHeld' /\ RefusedOnlyIfHeld'
    BY SMTT(30), <1>1 DEF Connect, Goto
  <1>2. ASSUME NEW c \in Connections, ReserveName(c)
        PROVE  ReservedNamesHeld' /\ RefusedOnlyIfHeld'
    BY <1>2 DEF ReserveName, Goto, NameFree
  <1>3. ASSUME NEW c \in Connections, RejectDuplicate(c)
        PROVE  ReservedNamesHeld' /\ RefusedOnlyIfHeld'
    BY SMTT(30), <1>3 DEF RejectDuplicate, Goto, NameFree
  <1>4. ASSUME NEW c \in Connections, StoreInDatabase(c)
        PROVE  ReservedNamesHeld' /\ RefusedOnlyIfHeld'
    BY <1>4 DEF StoreInDatabase, Goto
  <1>5. ASSUME NEW c \in Connections, StoreFails(c)
        PROVE  ReservedNamesHeld' /\ RefusedOnlyIfHeld'
    BY Zenon, <1>5 DEF StoreFails, Goto
  <1>6. ASSUME NEW c \in Connections, Publish(c)
        PROVE  ReservedNamesHeld' /\ RefusedOnlyIfHeld'
    BY SMTT(30), <1>6 DEF Publish, Goto
  <1>7. ASSUME NEW c \in Connections, SetRunning(c)
        PROVE  ReservedNamesHeld' /\ RefusedOnlyIfHeld'
    BY <1>7 DEF SetRunning, Goto
  <1>8. ASSUME NEW c \in Connections, SetRunningFails(c)
        PROVE  ReservedNamesHeld' /\ RefusedOnlyIfHeld'
    BY Zenon, <1>8 DEF SetRunningFails, Goto
  <1>9. ASSUME NEW c \in Connections, Subscribe(c)
        PROVE  ReservedNamesHeld' /\ RefusedOnlyIfHeld'
    BY SMTT(30), <1>9 DEF Subscribe, Goto
  <1>10. ASSUME NEW c \in Connections, NEW m \in StatusMessages, TakeStatusMessage(c, m)
        PROVE  ReservedNamesHeld' /\ RefusedOnlyIfHeld'
    BY SMTT(30), <1>10 DEF TakeStatusMessage, Goto
  <1>11. ASSUME NEW c \in Connections, SetStatusItems(c)
        PROVE  ReservedNamesHeld' /\ RefusedOnlyIfHeld'
    BY SMTT(30), <1>11 DEF SetStatusItems, Goto
  <1>12. ASSUME NEW c \in Connections, RemoveStatusItems(c)
        PROVE  ReservedNamesHeld' /\ RefusedOnlyIfHeld'
    BY SMTT(30), <1>12 DEF RemoveStatusItems, Goto
  <1>13. ASSUME NEW c \in Connections, StatusItemsFail(c)
        PROVE  ReservedNamesHeld' /\ RefusedOnlyIfHeld'
    BY Zenon, <1>13 DEF StatusItemsFail, Goto
  <1>14. ASSUME NEW c \in Connections, Close(c)
        PROVE  ReservedNamesHeld' /\ RefusedOnlyIfHeld'
    BY <1>14 DEF Close, Goto, SlowJoined
  <1>15. ASSUME NEW c \in Connections, ReleaseName(c)
        PROVE  ReservedNamesHeld' /\ RefusedOnlyIfHeld'
    BY SMTT(30), <1>15 DEF ReleaseName, Goto, OwnName
  <1>16. ASSUME NEW c \in Connections, Unsubscribe(c)
        PROVE  ReservedNamesHeld' /\ RefusedOnlyIfHeld'
    BY <1>16 DEF Unsubscribe, Goto
  <1>17. ASSUME NEW c \in Connections, SetStopped(c)
        PROVE  ReservedNamesHeld' /\ RefusedOnlyIfHeld'
    BY SMTT(30), <1>17 DEF SetStopped, Goto
  <1>18. ASSUME NEW c \in Connections, SetStoppedFails(c)
        PROVE  ReservedNamesHeld' /\ RefusedOnlyIfHeld'
    BY Zenon, <1>18 DEF SetStoppedFails, Goto
  <1>19. ASSUME NEW c \in Connections, ClearItems(c)
        PROVE  ReservedNamesHeld' /\ RefusedOnlyIfHeld'
    BY SMTT(30), <1>19 DEF ClearItems, Goto, Forget
  <1>20. ASSUME NEW c \in Connections, ClearItemsFails(c)
        PROVE  ReservedNamesHeld' /\ RefusedOnlyIfHeld'
    BY Zenon, <1>20 DEF ClearItemsFails, Goto, Forget
  <1>21. CASE HandleSignal
    BY SMTT(30), <1>21 DEF HandleSignal
  <1>22. CASE Restart
    BY <1>22 DEF Restart
  <1>23. CASE UNCHANGED vars
    BY <1>23 DEF vars
  <1> QED BY ZenonT(30), <1>1, <1>2, <1>3, <1>4, <1>5, <1>6, <1>7, <1>8,
     <1>9, <1>10, <1>11, <1>12, <1>13, <1>14, <1>15, <1>16,
     <1>17, <1>18, <1>19, <1>20, <1>21, <1>22, <1>23 DEF Next

\* Every step keeps the inductive invariant.
LEMMA RegistryStep == RegistryInv /\ [Next]_vars => RegistryInv'
  BY Zenon, TypeStep, NameStep, OwnerStep DEF RegistryInv

\* The registry keeps its inductive invariant.
THEOREM RegistryCorrect == Spec => []RegistryInv
  BY RegistryInit, RegistryStep, PTL DEF Spec

\* Only one plugin holds a name at a time, from registerPlugin's reservation to
\* ~Plugin's release.
THEOREM NamesAreUnique == Spec => []UniqueName
  <1>1. RegistryInv => UniqueName
    BY Zenon DEF RegistryInv
  <1> QED BY <1>1, RegistryCorrect, PTL

\* Without database failures a plugin with no connection is not shown as running.
THEOREM GonePluginsAreNotRunning == Spec => []NotRunningWhenGone
  <1>1. RegistryInv => NotRunningWhenGone
    BY SMTT(30) DEF RegistryInv, NotRunningWhenGone, RunningHasOwner, Live
  <1> QED BY <1>1, RegistryCorrect, PTL

\* Without database failures and restarts a plugin with no connection has no
\* status items.
THEOREM GonePluginsHaveNoItems == Spec => []NoOrphanItems
  <1>1. RegistryInv => NoOrphanItems
    BY Zenon DEF RegistryInv, NoOrphanItems, ItemsHaveOwner, RegisteredUnderManifest
  <1> QED BY <1>1, RegistryCorrect, PTL
\* A name that no connection holds is refused only after a database error.
THEOREM RefusedNamesAreHeld == Spec => []RefusedOnlyIfHeld
  <1>1. Init => ReservedNamesHeld /\ RefusedOnlyIfHeld
    BY Zenon DEF Init, ReservedNamesHeld, RefusedOnlyIfHeld
  <1>2. RegistryInv /\ ReservedNamesHeld /\ RefusedOnlyIfHeld /\ [Next]_vars
          => ReservedNamesHeld' /\ RefusedOnlyIfHeld'
    BY Zenon, RefusalStep
  <1> QED BY <1>1, <1>2, RegistryCorrect, PTL DEF Spec

\* The variables of the registry keep their types.
THEOREM RegistryTypes == Spec => []TypeOK
  <1>1. RegistryInv => TypeOK
    BY Zenon DEF RegistryInv
  <1> QED BY <1>1, RegistryCorrect, PTL
=============================================================================
