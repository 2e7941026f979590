-------------------------- MODULE SourceListProofs --------------------------
(* What SourceList keeps in memory is what it keeps in its files, no removed   *)
(* source leaves a state behind, and discovery lists nothing twice: for every  *)
(* list of seeds, all answers of the portals and every sequence of commands.   *)
EXTENDS SourceList, FiniteSetTheorems, TLAPS

IsList(l) == \E S : l \in Seq(S) /\ \A r \in S : "id" \in DOMAIN r

LEMMA ListFacts ==
    ASSUME NEW l, IsList(l)
    PROVE  /\ Len(l) \in Nat /\ DOMAIN l = 1..Len(l)
           /\ \A i \in DOMAIN l : "id" \in DOMAIN l[i]
  BY DEF IsList

LEMMA AppendList ==
    ASSUME NEW l, IsList(l), NEW x, "id" \in DOMAIN x
    PROVE  IsList(Append(l, x)) /\ Ids(Append(l, x)) = Ids(l) \union {x.id}
<1>1. PICK S : l \in Seq(S) /\ \A r \in S : "id" \in DOMAIN r
  BY DEF IsList
<1>2. /\ Append(l, x) \in Seq(S \union {x}) /\ Len(Append(l, x)) = Len(l) + 1
      /\ \A i \in 1..Len(l) : Append(l, x)[i] = l[i]
      /\ Append(l, x)[Len(l) + 1] = x
  BY <1>1
<1>3. IsList(Append(l, x))
  BY <1>1, <1>2 DEF IsList
<1>4. Ids(Append(l, x)) = Ids(l) \union {x.id}
  BY <1>1, <1>2 DEF Ids
<1> QED
  BY <1>3, <1>4

\* Without its record at i a list is its part before and its part behind.
LEMMA RemoveFacts ==
    ASSUME NEW S, NEW l \in Seq(S), NEW i \in DOMAIN l
    PROVE  /\ RemoveAt(l, i) \in Seq(S) /\ Len(RemoveAt(l, i)) = Len(l) - 1
           /\ \A j \in 1..(i - 1) : RemoveAt(l, i)[j] = l[j]
           /\ \A j \in i..(Len(l) - 1) : RemoveAt(l, i)[j] = l[j + 1]
<1> DEFINE before == SubSeq(l, 1, i - 1)
           behind == SubSeq(l, i + 1, Len(l))
<1>2. i \in 1..Len(l) /\ Len(l) \in Nat
  OBVIOUS
<1>3. /\ before \in Seq(S) /\ Len(before) = i - 1
      /\ \A j \in 1..(i - 1) : before[j] = l[j]
  BY <1>2
<1>4. /\ behind \in Seq(S) /\ Len(behind) = Len(l) - i
      /\ \A j \in 1..(Len(l) - i) : behind[j] = l[i + j]
  BY <1>2
<1>5. /\ RemoveAt(l, i) \in Seq(S) /\ Len(RemoveAt(l, i)) = Len(l) - 1
      /\ \A j \in 1..(i - 1) : RemoveAt(l, i)[j] = l[j]
      /\ \A j \in i..(Len(l) - 1) : RemoveAt(l, i)[j] = l[j + 1]
  <2> HIDE DEF before, behind
  <2>1. RemoveAt(l, i) = before \o behind
    BY DEF RemoveAt, before, behind
  <2>2. /\ before \o behind \in Seq(S) /\ Len(before \o behind) = Len(l) - 1
        /\ \A j \in 1..(i - 1) : (before \o behind)[j] = before[j]
        /\ \A j \in i..(Len(l) - 1) : (before \o behind)[j] = behind[j - (i - 1)]
    BY <1>2, <1>3, <1>4
  <2>3. ASSUME NEW j \in i..(Len(l) - 1)
        PROVE  behind[j - (i - 1)] = l[j + 1]
    <3>1. j - (i - 1) \in 1..(Len(l) - i) /\ i + (j - (i - 1)) = j + 1
      BY <1>2
    <3>2. behind[j - (i - 1)] = l[i + (j - (i - 1))]
      BY <3>1, <1>4
    <3> QED
      BY <3>1, <3>2
  <2> QED
    BY <2>1, <2>2, <2>3, <1>3
<1> QED
  BY <1>5

LEMMA RemoveList ==
    ASSUME NEW l, IsList(l), NEW i \in DOMAIN l
    PROVE  /\ IsList(RemoveAt(l, i))
           /\ Ids(l) \subseteq Ids(RemoveAt(l, i)) \union {l[i].id}
<1>1. PICK S : l \in Seq(S) /\ \A r \in S : "id" \in DOMAIN r
  BY DEF IsList
<1>2. i \in 1..Len(l) /\ Len(l) \in Nat
  BY <1>1
<1>5. /\ RemoveAt(l, i) \in Seq(S) /\ Len(RemoveAt(l, i)) = Len(l) - 1
      /\ \A j \in 1..(i - 1) : RemoveAt(l, i)[j] = l[j]
      /\ \A j \in i..(Len(l) - 1) : RemoveAt(l, i)[j] = l[j + 1]
  BY <1>1, RemoveFacts
<1>6. IsList(RemoveAt(l, i))
  BY <1>1, <1>5 DEF IsList
<1>7. ASSUME NEW k \in DOMAIN l, k # i
      PROVE  l[k].id \in Ids(RemoveAt(l, i))
  <2>1. CASE k < i
    BY <2>1, <1>1, <1>2, <1>5 DEF Ids
  <2>2. CASE k > i
    <3>1. k - 1 \in i..(Len(l) - 1) /\ k - 1 \in DOMAIN RemoveAt(l, i)
      BY <2>2, <1>1, <1>2, <1>5
    <3>2. RemoveAt(l, i)[k - 1] = l[k]
      BY <3>1, <1>1, <1>5
    <3> QED
      BY <3>1, <3>2 DEF Ids
  <2> QED
    BY <2>1, <2>2, <1>1, <1>2, <1>7
<1>8. Ids(l) \subseteq Ids(RemoveAt(l, i)) \union {l[i].id}
  BY <1>7 DEF Ids
<1> QED
  BY <1>6, <1>8

-----------------------------------------------------------------------------
(* Memory and file.  The list and its file are lists of records, so that a     *)
(* record keeps its id through an update and its place in both.                *)
ListInv ==
    /\ IsList(list) /\ IsList(file)
    /\ doing = "starting" => IsList(left)
    /\ FileIsMemory

LEMMA ListInit == Init => ListInv
<1> SUFFICES ASSUME Init PROVE ListInv
  OBVIOUS
<1>1. list \in Seq({}) /\ file \in Seq({})
  BY DEF Init
<1> QED
  BY <1>1 DEF Init, ListInv, IsList, FileIsMemory

LEMMA SeedsAreList == IsList(Seeds)
<1>1. \A r \in ToSet(Seeds) : "id" \in DOMAIN r
  BY SeedsAssumption DEF ToSet
<1> QED
  BY <1>1, SeedsAssumption DEF IsList, IsSequence

LEMMA TailList ==
    ASSUME NEW l, IsList(l), l # <<>>
    PROVE  IsList(Tail(l)) /\ "id" \in DOMAIN l[1]
  BY DEF IsList

\* A record whose fields are replaced keeps its id and its place.
LEMMA ChangeList ==
    ASSUME NEW l, IsList(l), NEW i \in DOMAIN l, NEW name, NEW url, NEW enabled,
           NEW m, m = [l EXCEPT ![i] = Changed(@, name, url, enabled)]
    PROVE  /\ IsList(m) /\ Len(m) = Len(l)
           /\ \A j \in DOMAIN l : m[j].id = l[j].id /\ (j # i => m[j] = l[j])
<1> DEFINE x == Changed(l[i], name, url, enabled)
<1>0. m = [l EXCEPT ![i] = x]
  OBVIOUS
<1>1. PICK S : l \in Seq(S) /\ \A r \in S : "id" \in DOMAIN r
  BY DEF IsList
<1>2. "id" \in DOMAIN l[i]
  BY <1>1
<1>3. "id" \in DOMAIN x /\ x.id = l[i].id
  BY <1>2 DEF Changed
<1> HIDE DEF x
<1>4. m \in Seq(S \union {x}) /\ Len(m) = Len(l)
  BY <1>0, <1>1
<1>5. IsList(m)
  BY <1>1, <1>3, <1>4 DEF IsList
<1>6. \A j \in DOMAIN l : m[j].id = l[j].id /\ (j # i => m[j] = l[j])
  BY <1>0, <1>3
<1> QED
  BY <1>4, <1>5, <1>6

LEMMA ListNext == ListInv /\ [Next]_vars => ListInv'
<1> SUFFICES ASSUME ListInv, [Next]_vars
             PROVE  ListInv'
  OBVIOUS
<1> USE DEF ListInv
\* A list written whole, or gone, or left alone.
<1>a. ASSUME NEW l, IsList(l), Persist(l), doing' # "starting"
      PROVE  ListInv'
  <2>1. IsList(list') /\ IsList(file') /\ list' = file'
    BY <1>a DEF Persist
  <2> QED
    BY <2>1, <1>a DEF FileIsMemory
<1>b. ASSUME Down, IsList(file')
      PROVE  ListInv'
  <2>1. list' \in Seq({}) /\ doing' = "down"
    BY <1>b DEF Down
  <2>2. IsList(list')
    BY <2>1 DEF IsList
  <2> QED
    BY <2>1, <2>2, <1>b DEF FileIsMemory
<1>c. ASSUME UNCHANGED <<list, file, refused>>, doing' = doing \/ doing' \in {"idle", "adding", "removing"},
             doing \notin {"down", "starting"}
      PROVE  ListInv'
  BY <1>c DEF FileIsMemory
<1>1. CASE Start
  BY <1>1, SeedsAreList DEF Start, FileIsMemory
<1>2. CASE Seed
  <2>1. IsList(left') /\ "id" \in DOMAIN left[1]
    BY <1>2, TailList DEF Seed
  <2>2. IsList(list') /\ file' = file /\ doing' = "starting"
    BY <1>2, <2>1, AppendList DEF Seed
  <2> QED
    BY <2>1, <2>2 DEF FileIsMemory
<1>3. CASE Seeded
  BY <1>3, <1>a DEF Seeded
<1>4. CASE StartDies
  BY <1>4, <1>b DEF StartDies
<1>5. CASE Stop
  BY <1>5, <1>b DEF Stop
<1>6. CASE RunDies
  BY <1>6, <1>b DEF RunDies
<1>7. CASE Tick
  BY <1>7 DEF Tick, working, FileIsMemory
<1>8. CASE AddSource
  <2>1. PICK name \in Names, url \in Urls : Persist(Append(list, NewSource(name, url, "operator")))
    BY <1>8 DEF AddSource
  <2>2. IsList(Append(list, NewSource(name, url, "operator")))
    BY AppendList DEF NewSource
  <2> QED
    BY <1>8, <2>1, <2>2, <1>a DEF AddSource
<1>9. CASE UpdateSource
  <2>1. PICK i \in Firsts, name \in Names \union {Keep, Blank}, url \in Urls \union {Keep, Blank},
             enabled \in {Keep, FALSE} :
           \/ Persist([list EXCEPT ![i] = Changed(@, name, url, enabled)])
           \/ /\ list' = [list EXCEPT ![i] = Changed(@, name, Keep, Keep)]
              /\ refused' = refused \union {list[i].id} /\ UNCHANGED file
    BY <1>9 DEF UpdateSource
  <2>2. i \in DOMAIN list /\ doing = "idle" /\ doing' = doing
    BY <1>9 DEF UpdateSource, Firsts
  <2>3. CASE Persist([list EXCEPT ![i] = Changed(@, name, url, enabled)])
    BY <2>2, <2>3, <1>a, ChangeList
  <2>4. CASE /\ list' = [list EXCEPT ![i] = Changed(@, name, Keep, Keep)]
             /\ refused' = refused \union {list[i].id} /\ UNCHANGED file
    <3>1. /\ IsList(list') /\ Len(list') = Len(list)
          /\ \A j \in DOMAIN list : list'[j].id = list[j].id /\ (j # i => list'[j] = list[j])
      <4> DEFINE m == [list EXCEPT ![i] = Changed(@, name, Keep, Keep)]
      <4>1. IsList(list) /\ i \in DOMAIN list
        BY <2>2
      <4>2. /\ IsList(m) /\ Len(m) = Len(list)
            /\ \A j \in DOMAIN list : m[j].id = list[j].id /\ (j # i => m[j] = list[j])
        BY <4>1, ChangeList
      <4>3. list' = m
        BY <2>4
      <4> HIDE DEF m
      <4> QED
        BY <4>2, <4>3
    <3>2. DOMAIN list' = DOMAIN list
      BY <3>1, ListFacts
    <3> QED
      BY <2>2, <2>4, <3>1, <3>2 DEF FileIsMemory
  <2> QED
    BY <2>1, <2>3, <2>4
<1>10. CASE RemoveSource
  <2>1. PICK i \in Firsts : Forget(i)
    BY <1>10 DEF RemoveSource
  <2>2. IsList(RemoveAt(list, i))
    BY RemoveList DEF Firsts
  <2> QED
    BY <1>10, <2>1, <2>2, <1>a DEF RemoveSource, Forget
<1>11. CASE RemoveFile
  BY <1>11, <1>c DEF RemoveFile
<1>12. CASE Run
  BY <1>12, <1>c DEF Run
<1>13. CASE Catalog
  BY <1>13, <1>c DEF Catalog
<1>14. CASE AddFound
  <2>1. CASE left[1].url \in known
    BY <1>14, <2>1, <1>c DEF AddFound
  <2>2. CASE left[1].url \notin known
    <3>1. IsList(Append(list, NewSource(left[1].name, left[1].url, "catalog")))
      BY AppendList DEF NewSource
    <3> QED
      BY <1>14, <2>2, <3>1, <1>a DEF AddFound
  <2> QED
    BY <2>1, <2>2
<1>15. CASE AddFails
  BY <1>15, <1>b DEF AddFails
<1>16. CASE Added
  BY <1>16, <1>c DEF Added
<1>17. CASE UNCHANGED vars
  BY <1>17 DEF vars, FileIsMemory
<1> QED
  BY <1>1, <1>2, <1>3, <1>4, <1>5, <1>6, <1>7, <1>8, <1>9, <1>10, <1>11, <1>12, <1>13, <1>14,
     <1>15, <1>16, <1>17 DEF Next

\* What the list in memory has that its file has not is what a refused update left.
THEOREM MemoryIsFile == Spec => []FileIsMemory
<1>1. Init => ListInv
  BY ListInit
<1>2. ListInv /\ [Next]_vars => ListInv'
  BY ListNext
<1>3. ListInv => FileIsMemory
  BY DEF ListInv
<1> QED
  BY <1>1, <1>2, <1>3, PTL DEF Spec
-----------------------------------------------------------------------------
(* Strays.  A state file without a source belongs to an id something died on;  *)
(* while a source is being removed, also to that source.                       *)
Stored == Ids(list) \union torn

StrayInv ==
    /\ doing \in {"down", "starting", "idle", "adding", "removing"}
    /\ DOMAIN saved = Files /\ saved["tmp"] \subseteq torn
    /\ doing \in {"down", "starting"} => saved["state"] \subseteq Ids(file) \union torn
    /\ doing = "starting" => Ids(file) \subseteq Ids(list)
    /\ doing \notin {"down", "starting"} => Ids(list) = Ids(file)
    /\ doing \in {"idle", "adding"} => saved["state"] \subseteq Stored
    /\ doing = "removing" =>
          /\ gone = [id |-> gone.id, files |-> gone.files]
          /\ \/ /\ gone.files = <<"state", "records", "cache">>
                /\ saved["state"] \subseteq Stored \union {gone.id}
             \/ /\ gone.files \in {<<"records", "cache">>, <<"cache">>}
                /\ saved["state"] \subseteq Stored
    /\ doing # "down" => states \subseteq Stored

LEMMA StrayInit == Init => StrayInv
  BY DEF Init, StrayInv, Files, Stored, Ids

\* Where list and file differ only by refused updates they have the same ids.
LEMMA SameIds ==
    ASSUME NEW l, NEW m, IsList(l), IsList(m), Len(l) = Len(m),
           \A i \in DOMAIN l : l[i].id = m[i].id
    PROVE  Ids(l) = Ids(m)
<1>1. DOMAIN l = DOMAIN m
  BY ListFacts
<1> QED
  BY <1>1 DEF Ids

LEMMA StrayNext == ListInv /\ StrayInv /\ ListInv' /\ [Next]_vars => StrayInv'
<1> SUFFICES ASSUME ListInv, StrayInv, ListInv', [Next]_vars
             PROVE  StrayInv'
  OBVIOUS
<1> USE DEF StrayInv, Stored
<1>0. /\ IsList(list) /\ IsList(file)
      /\ doing \notin {"down", "starting"} =>
            /\ Len(list) = Len(file)
            /\ \A i \in DOMAIN list : list[i].id = file[i].id
  BY DEF ListInv, FileIsMemory
<1>i. doing' \notin {"down", "starting"} => Ids(list)' = Ids(file)'
  <2>1. /\ IsList(list') /\ IsList(file')
        /\ doing' \notin {"down", "starting"} =>
              /\ Len(list') = Len(file')
              /\ \A i \in DOMAIN list' : list'[i].id = file'[i].id
    BY DEF ListInv, FileIsMemory
  <2>2. doing' \notin {"down", "starting"} => Ids(list') = Ids(file')
    BY <2>1, SameIds
  <2> QED
    BY <2>2
\* The process goes down; what it was at is torn.
<1>d. ASSUME Down, UNCHANGED file, doing # "down", torn \subseteq torn',
             \A x : doing = "removing" /\ x = gone.id => x \in torn',
             DOMAIN saved' = Files, saved'["state"] = saved["state"], saved'["tmp"] \subseteq torn'
      PROVE  StrayInv'
  <2>1. saved["state"] \subseteq Ids(file) \union torn'
    BY <1>d
  <2>2. doing' = "down" /\ Ids(file)' = Ids(file)
    BY <1>d DEF Down, Ids
  <2> QED
    BY <2>1, <2>2, <1>d
\* Nothing is forgotten: the ids listed only grow.
<1>g. ASSUME doing \in {"idle", "adding"}, doing' \in {"idle", "adding"},
             UNCHANGED <<states, saved, torn>>, Ids(list) \subseteq Ids(list)'
      PROVE  StrayInv'
  BY <1>g, <1>i
<1>1. CASE Start
  <2>1. /\ doing = "down" /\ doing' = "starting" /\ Ids(list)' = Ids(file)' /\ Ids(file)' = Ids(file)
        /\ states' = saved["state"] \union saved["tmp"] /\ saved' = saved /\ torn' = torn
    BY <1>1 DEF Start, Ids
  <2> QED
    BY <2>1
<1>2. CASE Seed
  <2>1. "id" \in DOMAIN left[1]
    BY <1>2, TailList DEF Seed, ListInv
  <2>2. Ids(list) \subseteq Ids(list')
    BY <1>2, <1>0, <2>1, AppendList DEF Seed
  <2>3. Ids(list)' = Ids(list') /\ Ids(file)' = Ids(file)
    BY <1>2 DEF Seed, Ids
  <2> QED
    BY <1>2, <2>2, <2>3 DEF Seed
<1>3. CASE Seeded
  <2>1. /\ doing = "starting" /\ doing' = "idle" /\ Ids(list)' = Ids(list)
        /\ saved' = saved /\ torn' = torn /\ states' = states
    BY <1>3 DEF Seeded, Persist, Ids
  <2> QED
    BY <2>1, <1>i
<1>4. CASE StartDies
  <2>1. /\ doing = "starting" /\ doing' = "down" /\ Ids(file)' = Ids(list)
        /\ saved' = saved /\ torn' = torn
    BY <1>4 DEF StartDies, Down, Ids
  <2> QED
    BY <2>1
<1>5. CASE Stop
  BY <1>5, <1>d DEF Stop
<1>6. CASE RunDies
  <2>1. PICK id \in Ids(list) :
           /\ saved' = [saved EXCEPT !["tmp"] = @ \union {id}, !["records"] = @ \union {id},
                                     !["cache"] = @ \union {id}]
           /\ torn' = torn \union {id}
    BY <1>6 DEF RunDies
  <2>2. DOMAIN saved' = Files /\ saved'["state"] = saved["state"] /\ saved'["tmp"] \subseteq torn'
    BY <2>1 DEF Files
  <2> QED
    BY <1>6, <1>d, <2>1, <2>2 DEF RunDies
<1>7. CASE Tick
  BY <1>7 DEF Tick, working, Ids
<1>8. CASE AddSource
  <2>1. PICK name \in Names, url \in Urls : list' = Append(list, NewSource(name, url, "operator"))
    BY <1>8 DEF AddSource, Persist
  <2>2. Ids(list) \subseteq Ids(list')
    BY <1>0, <2>1, AppendList DEF NewSource
  <2>3. Ids(list)' = Ids(list')
    BY DEF Ids
  <2> QED
    BY <1>8, <1>g, <2>2, <2>3 DEF AddSource
<1>9. CASE UpdateSource
  <2>1. PICK i \in Firsts, name \in Names \union {Keep, Blank}, url \in Urls \union {Keep, Blank},
             enabled \in {Keep, FALSE} :
           list' = [list EXCEPT ![i] = Changed(@, name, url, enabled)]
    BY <1>9 DEF UpdateSource, Persist
  <2>2. i \in DOMAIN list
    BY DEF Firsts
  <2> DEFINE m == [list EXCEPT ![i] = Changed(@, name, url, enabled)]
  <2>3. IsList(m) /\ Len(m) = Len(list) /\ \A j \in DOMAIN list : m[j].id = list[j].id
    BY <1>0, <2>2, ChangeList
  <2>4. list' = m
    BY <2>1
  <2> HIDE DEF m
  <2>5. \A j \in DOMAIN list : list[j].id = m[j].id
    BY <2>3
  <2>6. Ids(list) = Ids(m)
    BY <1>0, <2>3, <2>5, SameIds
  <2>7. Ids(list)' = Ids(list)
    BY <2>4, <2>6 DEF Ids
  <2> QED
    BY <1>9, <1>g, <2>7 DEF UpdateSource
<1>10. CASE RemoveSource
  <2>1. PICK i \in Firsts : /\ Forget(i)
                            /\ gone' = [id |-> list[i].id, files |-> <<"state", "records", "cache">>]
    BY <1>10 DEF RemoveSource
  <2>2. Ids(list) \subseteq Ids(RemoveAt(list, i)) \union {list[i].id}
    BY <1>0, RemoveList DEF Firsts
  <2>3. Ids(list) \subseteq Ids(list)' \union {list[i].id} /\ states' = states \ {list[i].id}
    BY <2>1, <2>2 DEF Forget, Persist, Ids
  <2>4. doing = "idle" /\ doing' = "removing" /\ saved' = saved /\ torn' = torn
    BY <1>10 DEF RemoveSource
  <2>5. gone'.id = list[i].id /\ gone'.files = <<"state", "records", "cache">>
        /\ gone' = [id |-> gone'.id, files |-> gone'.files]
    BY <2>1
  <2> QED
    BY <2>3, <2>4, <2>5, <1>i
<1>11. CASE RemoveFile
  <2>1. /\ doing = "removing" /\ doing' \in {"removing", "idle"} /\ Ids(list)' = Ids(list)
        /\ states' = states /\ torn' = torn
        /\ saved' = [saved EXCEPT ![Head(gone.files)] = @ \ {gone.id}]
    BY <1>11 DEF RemoveFile, Ids
  <2>2. CASE gone.files = <<"state", "records", "cache">>
    <3>1. Head(gone.files) = "state" /\ Len(gone.files) = 3 /\ Tail(gone.files) = <<"records", "cache">>
      BY <2>2
    <3>a. doing' = "removing" /\ gone' = [gone EXCEPT !.files = Tail(gone.files)]
      BY <1>11, <2>1, <3>1 DEF RemoveFile
    <3>2. doing' = "removing" /\ gone' = [gone EXCEPT !.files = <<"records", "cache">>]
      BY <3>1, <3>a
    <3>3. /\ gone'.files = <<"records", "cache">>
          /\ gone' = [id |-> gone'.id, files |-> gone'.files]
      BY <2>1, <3>2
    <3>4. /\ DOMAIN saved' = Files /\ saved'["tmp"] = saved["tmp"]
          /\ saved'["state"] = saved["state"] \ {gone.id}
      BY <2>1, <3>1 DEF Files
    <3>5. saved["state"] \subseteq Stored \union {gone.id}
      BY <2>1, <2>2
    <3> QED
      BY <2>1, <3>2, <3>3, <3>4, <3>5, <1>i
  <2>3. CASE gone.files \in {<<"records", "cache">>, <<"cache">>}
    <3>1. /\ Head(gone.files) \in {"records", "cache"}
          /\ Len(gone.files) = 1 \/ (Len(gone.files) = 2 /\ Tail(gone.files) = <<"cache">>)
      <4>1. CASE gone.files = <<"records", "cache">>
        BY <4>1
      <4>2. CASE gone.files = <<"cache">>
        BY <4>2
      <4> QED
        BY <2>3, <4>1, <4>2
    <3>a. \/ doing' = "idle"
          \/ /\ doing' = "removing" /\ gone' = [gone EXCEPT !.files = Tail(gone.files)]
             /\ Len(gone.files) # 1
      BY <1>11, <2>1 DEF RemoveFile
    <3>2. \/ doing' = "idle"
          \/ doing' = "removing" /\ gone' = [gone EXCEPT !.files = <<"cache">>]
      BY <3>1, <3>a
    <3>3. doing' = "removing" => /\ gone'.files = <<"cache">>
                                 /\ gone' = [id |-> gone'.id, files |-> gone'.files]
      BY <2>1, <3>2
    <3>4. /\ DOMAIN saved' = Files /\ saved'["tmp"] = saved["tmp"]
          /\ saved'["state"] = saved["state"]
      BY <2>1, <3>1 DEF Files
    <3>5. saved["state"] \subseteq Stored
      BY <2>1, <2>3
    <3> QED
      BY <2>1, <3>2, <3>3, <3>4, <3>5, <1>i
  <2> QED
    BY <2>1, <2>2, <2>3
<1>12. CASE Run
  <2>1. PICK id \in Ids(list) :
           /\ states' = states \union {id}
           /\ saved' = [kind \in Files |-> IF kind = "tmp" THEN saved[kind] \ {id}
                                           ELSE saved[kind] \union {id}]
           /\ torn' = torn \ {id}
    BY <1>12 DEF Run
  <2>2. doing = "idle" /\ doing' = "idle" /\ Ids(list)' = Ids(list)
    BY <1>12 DEF Run, Ids
  <2>3. /\ DOMAIN saved' = Files /\ saved'["tmp"] = saved["tmp"] \ {id}
        /\ saved'["state"] = saved["state"] \union {id}
    BY <2>1 DEF Files
  <2> QED
    BY <2>1, <2>2, <2>3, <1>i
<1>13. CASE Catalog
  BY <1>13, <1>g DEF Catalog, Ids
<1>14. CASE AddFound
  <2>1. Ids(list) \subseteq Ids(list')
    <3>1. Ids(list) \subseteq Ids(Append(list, NewSource(left[1].name, left[1].url, "catalog")))
      BY <1>0, AppendList DEF NewSource
    <3> QED
      BY <1>14, <3>1 DEF AddFound, Persist
  <2>2. Ids(list)' = Ids(list')
    BY DEF Ids
  <2> QED
    BY <1>14, <1>g, <2>1, <2>2 DEF AddFound
<1>15. CASE AddFails
  BY <1>15, <1>d DEF AddFails
<1>16. CASE Added
  BY <1>16, <1>g DEF Added, Ids
<1>17. CASE UNCHANGED vars
  BY <1>17 DEF vars, Ids
<1> QED
  BY <1>1, <1>2, <1>3, <1>4, <1>5, <1>6, <1>7, <1>8, <1>9, <1>10, <1>11, <1>12, <1>13, <1>14,
     <1>15, <1>16, <1>17 DEF Next

\* A state without a source is left only by a write or a removal something died in.
THEOREM NothingStrays == Spec => []NoStrayState
<1>1. Init => ListInv /\ StrayInv
  BY ListInit, StrayInit
<1>2. ListInv /\ StrayInv /\ [Next]_vars => ListInv' /\ StrayInv'
  BY ListNext, StrayNext
<1>3. StrayInv => NoStrayState
  BY DEF StrayInv, Stored, NoStrayState
<1> QED
  BY <1>1, <1>2, <1>3, PTL DEF Spec
-----------------------------------------------------------------------------
(* Discovery.  What it finds is offered with urls made of the portals' answers. *)
Asking == INSTANCE FoldProofs WITH Op <- TakeAnswer
Offering == INSTANCE FoldProofs WITH Op <- Take

IsUrl(url) == url = [at |-> url.at, padded |-> url.padded] /\ url.padded \in BOOLEAN

Given(answers) == UNION {ToSet(answers[i]) : i \in {j \in DOMAIN answers : answers[j] # NoAnswer}}
Resources(answers) == UNION {ToSet(package.resources) : package \in Given(answers.ckan)}

Keys(answers) ==
    {e.id : e \in Given(answers.socrata)} \union {<<"arcgis", e.id>> : e \in Given(answers.arcgis)}
    \union {<<"ckan", r.id>> : r \in Resources(answers)}

Offers(answers) ==
    [name : {e.name : e \in Given(answers.socrata)} \union {e.name : e \in Given(answers.arcgis)}
            \union {e.name : e \in Given(answers.ckan)},
     url  : {[at |-> <<e.domain, e.id>>, padded |-> FALSE] : e \in Given(answers.socrata)}
            \union {[at |-> RowsUrl(e.service), padded |-> FALSE] : e \in Given(answers.arcgis)}
            \union {r.url : r \in Resources(answers)}]

FoundSoFar(answers) == [seen : SUBSET Keys(answers), out : Seq(Offers(answers)), taken : Nat]

LEMMA OfferType ==
    ASSUME NEW answers, NEW found \in FoundSoFar(answers), NEW key \in Keys(answers),
           NEW name, NEW url, [name |-> name, url |-> url] \in Offers(answers)
    PROVE  Offer(found, key, name, url) \in FoundSoFar(answers)
<1> DEFINE K == Keys(answers)
           O == Offers(answers)
           o == [name |-> name, url |-> url]
           more == [seen |-> found.seen \union {key}, out |-> Append(found.out, o),
                    taken |-> found.taken + 1]
<1>1. found.seen \in SUBSET K /\ found.out \in Seq(O) /\ found.taken \in Nat
  BY DEF FoundSoFar
<1>2. found.seen \union {key} \in SUBSET K /\ Append(found.out, o) \in Seq(O) /\ found.taken + 1 \in Nat
  <2> HIDE DEF K, O, o
  <2>1. o \in O /\ key \in K
    BY DEF o, O, K
  <2> QED
    BY <1>1, <2>1
<1>3. more \in FoundSoFar(answers)
  <2> HIDE DEF o
  <2> QED
    BY <1>2 DEF FoundSoFar
<1> QED
  BY <1>3 DEF Offer

LEMMA TakeType ==
    ASSUME NEW answers \in Answers, NEW kind \in {"socrata", "arcgis", "ckan"},
           NEW found \in FoundSoFar(answers), NEW entry \in Given(answers[kind])
    PROVE  Take(kind, found, entry) \in FoundSoFar(answers)
<1>1. CASE kind = "socrata"
  <2>1. /\ entry.id \in Keys(answers)
        /\ [name |-> entry.name, url |-> [at |-> <<entry.domain, entry.id>>, padded |-> FALSE]]
              \in Offers(answers)
    BY <1>1 DEF Keys, Offers
  <2>2. TakeDataset(found, entry) \in FoundSoFar(answers)
    BY <2>1, OfferType DEF TakeDataset
  <2> QED
    BY <1>1, <2>2 DEF Take
<1>2. CASE kind = "arcgis"
  <2>1. /\ <<"arcgis", entry.id>> \in Keys(answers)
        /\ [name |-> entry.name, url |-> [at |-> RowsUrl(entry.service), padded |-> FALSE]]
              \in Offers(answers)
    BY <1>2 DEF Keys, Offers
  <2>2. TakeService(found, entry) \in FoundSoFar(answers)
    BY <2>1, OfferType DEF TakeService
  <2> QED
    BY <1>2, <2>2 DEF Take
<1>3. CASE kind = "ckan"
  <2> DEFINE fresh == {i \in DOMAIN entry.resources :
                         /\ entry.resources[i].usable
                         /\ <<"ckan", entry.resources[i].id>> \notin found.seen}
  <2>1. TakePackage(found, entry) =
          IF fresh = {} THEN found
          ELSE Offer(found, <<"ckan", entry.resources[Min(fresh)].id>>, entry.name,
                     entry.resources[Min(fresh)].url)
    BY DEF TakePackage
  <2>2. CASE fresh = {}
    BY <1>3, <2>1, <2>2 DEF Take
  <2>3. CASE fresh # {}
    <3>1. PICK i \in DOMAIN answers.ckan : answers.ckan[i] # NoAnswer /\ entry \in ToSet(answers.ckan[i])
      BY <1>3 DEF Given
    <3>2. entry.resources \in Seq(ToSet(entry.resources))
      BY <3>1, AnswersAssumption DEF IsSequence
    <3>3. Len(entry.resources) \in Nat /\ DOMAIN entry.resources = 1..Len(entry.resources)
      BY <3>2
    <3>4. Min(fresh) \in fresh
      <4>1. fresh \in SUBSET (1..Len(entry.resources))
        BY <3>3
      <4>2. Min(fresh) = Asking!Min(fresh)
        BY Zenon DEF Min, Asking!Min
      <4> HIDE DEF fresh
      <4> QED
        BY <2>3, <3>3, <4>1, <4>2, Asking!MinOfPart, Zenon
    <3> DEFINE r == entry.resources[Min(fresh)]
    <3>5. r \in ToSet(entry.resources)
      BY <3>4 DEF ToSet
    <3>6. r \in Resources(answers) /\ entry \in Given(answers.ckan)
      BY <1>3, <3>5 DEF Resources
    <3>7. TakePackage(found, entry) = Offer(found, <<"ckan", r.id>>, entry.name, r.url)
      BY <2>1, <2>3
    <3> HIDE DEF r, fresh
    <3>8. <<"ckan", r.id>> \in Keys(answers) /\ [name |-> entry.name, url |-> r.url] \in Offers(answers)
      BY <3>6 DEF Keys, Offers
    <3>9. TakePackage(found, entry) \in FoundSoFar(answers)
      BY <3>7, <3>8, OfferType
    <3> QED
      BY <1>3, <3>9 DEF Take
  <2> QED
    BY <2>2, <2>3
<1> QED
  BY <1>1, <1>2, <1>3

LEMMA TakeAnswerType ==
    ASSUME NEW answers \in Answers, NEW kind \in {"socrata", "arcgis", "ckan"},
           NEW found \in FoundSoFar(answers), NEW answer \in ToSet(answers[kind])
    PROVE  TakeAnswer(kind, found, answer) \in FoundSoFar(answers)
<1> DEFINE T == FoundSoFar(answers)
           E == Given(answers[kind])
           begun == [found EXCEPT !.taken = 0]
<1>1. CASE answer = NoAnswer
  BY <1>1 DEF TakeAnswer
<1>2. CASE answer # NoAnswer
  <2>1. begun \in T
    BY DEF FoundSoFar
  <2>2. answer \in Seq(E)
    <3>1. PICK i \in DOMAIN answers[kind] : answer = answers[kind][i]
      BY DEF ToSet
    <3>2. answer \in Seq(ToSet(answer)) /\ ToSet(answer) \subseteq E
      BY <1>2, <3>1, AnswersAssumption DEF IsSequence, Given
    <3> HIDE DEF E
    <3> QED
      BY <3>2
  <2>3. Offering!Keeps(kind, T, E)
    <3>1. \A f \in T, e \in E : Take(kind, f, e) \in T
      BY TakeType
    <3> HIDE DEF T, E
    <3> QED
      BY <3>1, Zenon DEF Offering!Keeps
  <2>4. TakeAnswer(kind, found, answer) = Offering!Folded(kind, begun, answer)
    BY <1>2, Zenon DEF TakeAnswer, FoldLeft, MapThenFoldSet, Max,
       Offering!Folded, Offering!FoldLeft, Offering!MapThenFoldSet, Offering!Max
  <2> HIDE DEF T, E, begun
  <2>5. Offering!Folded(kind, begun, answer) \in T
    BY <2>1, <2>2, <2>3, Offering!FoldType, Zenon
  <2>6. TakeAnswer(kind, found, answer) \in T
    BY <2>4, <2>5, Zenon
  <2> QED
    BY <2>6 DEF T
<1> QED
  BY <1>1, <1>2

LEMMA AnsweredType ==
    ASSUME NEW answers \in Answers, NEW kind \in {"socrata", "arcgis", "ckan"},
           NEW found \in FoundSoFar(answers)
    PROVE  Answered(kind, found, answers[kind]) \in FoundSoFar(answers)
<1> DEFINE T == FoundSoFar(answers)
           s == answers[kind]
           A == ToSet(s)
<1>1. s \in Seq(A)
  BY AnswersAssumption DEF IsSequence
<1>2. Asking!Keeps(kind, T, A)
  <2>1. \A f \in T, a \in A : TakeAnswer(kind, f, a) \in T
    BY TakeAnswerType
  <2> HIDE DEF T, A
  <2> QED
    BY <2>1, Zenon DEF Asking!Keeps
<1>3. Answered(kind, found, s) = Asking!Folded(kind, found, s)
  BY Zenon DEF Answered, FoldLeft, MapThenFoldSet, Max,
     Asking!Folded, Asking!FoldLeft, Asking!MapThenFoldSet, Asking!Max
<1>4. found \in T
  OBVIOUS
<1> HIDE DEF T, A, s
<1>5. Asking!Folded(kind, found, s) \in T
  BY <1>1, <1>2, <1>4, Asking!FoldType, Zenon
<1>6. Answered(kind, found, s) \in T
  BY <1>3, <1>5, Zenon
<1> QED
  BY <1>6 DEF T, s

\* What is discovered is a list of offers, and their urls are urls.
LEMMA DiscoverType ==
    ASSUME NEW answers \in Answers
    PROVE  /\ Discover(answers) \in Seq(Offers(answers))
           /\ \A o \in Offers(answers) : IsUrl(o.url)
<1> DEFINE T == FoundSoFar(answers)
           socrata == Answered("socrata", Nothing, answers["socrata"])
           arcgis == Answered("arcgis", socrata, answers["arcgis"])
           ckan == Answered("ckan", arcgis, answers["ckan"])
<1>1. Nothing \in T
  BY DEF Nothing, FoundSoFar
<1>2. socrata \in T
  BY <1>1, AnsweredType
<1>3. arcgis \in T
  BY <1>2, AnsweredType
<1>4. ckan \in T
  BY <1>3, AnsweredType
<1>5. Discover(answers) = ckan.out
  BY Zenon DEF Discover
<1> HIDE DEF ckan
<1>6. Discover(answers) \in Seq(Offers(answers))
  BY <1>4, <1>5 DEF FoundSoFar
<1>7. \A r \in Resources(answers) : IsUrl(r.url)
  <2> SUFFICES ASSUME NEW r \in Resources(answers)
               PROVE  IsUrl(r.url)
    OBVIOUS
  <2>1. PICK i \in DOMAIN answers.ckan :
           answers.ckan[i] # NoAnswer /\ \E package \in ToSet(answers.ckan[i]) : r \in ToSet(package.resources)
    BY DEF Resources, Given
  <2>2. r.url \in [at : {r.url.at}, padded : BOOLEAN]
    BY <2>1, AnswersAssumption
  <2> QED
    BY <2>2 DEF IsUrl
<1>8. \A o \in Offers(answers) : IsUrl(o.url)
  <2>1. \A x : IsUrl([at |-> x, padded |-> FALSE])
    BY DEF IsUrl
  <2> QED
    BY <1>7, <2>1 DEF Offers
<1> QED
  BY <1>6, <1>8

-----------------------------------------------------------------------------
(* Counting.  What a discovery adds stands for what it found: no url is listed *)
(* for more of its finds than one answer of the portals has.                   *)
IsSource(r) ==
    /\ {"id", "url", "by"} \subseteq DOMAIN r
    /\ r.by = "catalog" => IsUrl(r.url) /\ ~r.url.padded

AllSources(l) == \E S : l \in Seq(S) /\ \A r \in S : IsSource(r)

Found(l, at) == {i \in DOMAIN l : l[i].url.at = at /\ l[i].by = "catalog"}
Waiting(l, at) == {i \in DOMAIN l : l[i].url.at = at}

LEMMA SourcesFacts ==
    ASSUME NEW l, AllSources(l)
    PROVE  /\ Len(l) \in Nat /\ DOMAIN l = 1..Len(l)
           /\ \A i \in DOMAIN l : IsSource(l[i])
  BY DEF AllSources

LEMMA CountType ==
    ASSUME NEW l, NEW n \in Nat, DOMAIN l = 1..n, NEW at
    PROVE  /\ IsFiniteSet(Found(l, at)) /\ Cardinality(Found(l, at)) \in Nat
           /\ IsFiniteSet(Waiting(l, at)) /\ Cardinality(Waiting(l, at)) \in Nat
<1>1. IsFiniteSet(1..n)
  BY FS_Interval
<1>2. Found(l, at) \subseteq 1..n /\ Waiting(l, at) \subseteq 1..n
  BY DEF Found, Waiting
<1> QED
  BY <1>1, <1>2, FS_Subset, FS_CardinalityType

LEMMA AppendCount ==
    ASSUME NEW l, AllSources(l), NEW x, IsSource(x)
    PROVE  /\ AllSources(Append(l, x))
           /\ \A at : IF x.by = "catalog" /\ x.url.at = at
                      THEN Cardinality(Found(Append(l, x), at)) = Cardinality(Found(l, at)) + 1
                      ELSE Found(Append(l, x), at) = Found(l, at)
<1>1. PICK S : l \in Seq(S) /\ \A r \in S : IsSource(r)
  BY DEF AllSources
<1>2. /\ Append(l, x) \in Seq(S \union {x}) /\ Len(Append(l, x)) = Len(l) + 1
      /\ \A i \in 1..Len(l) : Append(l, x)[i] = l[i]
      /\ Append(l, x)[Len(l) + 1] = x
  BY <1>1
<1>3. AllSources(Append(l, x))
  BY <1>1, <1>2 DEF AllSources
<1> DEFINE m == Append(l, x)
<1>4. /\ Len(l) \in Nat /\ DOMAIN l = 1..Len(l) /\ DOMAIN m = 1..(Len(l) + 1)
      /\ \A i \in 1..Len(l) : m[i] = l[i]
      /\ m[Len(l) + 1] = x
  BY <1>1, <1>2
<1> HIDE DEF m
<1>5. ASSUME NEW at, x.by = "catalog" /\ x.url.at = at
      PROVE  Cardinality(Found(m, at)) = Cardinality(Found(l, at)) + 1
  <2>1. Found(m, at) = Found(l, at) \union {Len(l) + 1} /\ Len(l) + 1 \notin Found(l, at)
    BY <1>4, <1>5 DEF Found
  <2> QED
    BY <2>1, <1>4, CountType, FS_AddElement
<1>6. ASSUME NEW at, ~(x.by = "catalog" /\ x.url.at = at)
      PROVE  Found(m, at) = Found(l, at)
  BY <1>4, <1>6 DEF Found
<1> QED
  BY <1>3, <1>5, <1>6 DEF m

\* What is taken out of a list is counted there no more, and nothing else is.
LEMMA RemoveCount ==
    ASSUME NEW l, AllSources(l), NEW i \in DOMAIN l
    PROVE  /\ AllSources(RemoveAt(l, i))
           /\ \A at : Cardinality(Found(RemoveAt(l, i), at)) <= Cardinality(Found(l, at))
<1>1. PICK S : l \in Seq(S) /\ \A r \in S : IsSource(r)
  BY DEF AllSources
<1> DEFINE m == RemoveAt(l, i)
<1>2. /\ m \in Seq(S) /\ Len(m) = Len(l) - 1
      /\ \A j \in 1..(i - 1) : m[j] = l[j]
      /\ \A j \in i..(Len(l) - 1) : m[j] = l[j + 1]
  BY <1>1, RemoveFacts
<1>3. AllSources(m)
  BY <1>1, <1>2 DEF AllSources
<1>4. ASSUME NEW at
      PROVE  Cardinality(Found(m, at)) <= Cardinality(Found(l, at))
  <2> DEFINE f == [j \in Found(m, at) |-> IF j < i THEN j ELSE j + 1]
  <2>0. Len(l) \in Nat /\ DOMAIN l = 1..Len(l) /\ i \in 1..Len(l) /\ DOMAIN m = 1..(Len(l) - 1)
    BY <1>1, <1>2
  <2>1. ASSUME NEW j \in Found(m, at)
        PROVE  (IF j < i THEN j ELSE j + 1) \in Found(l, at)
    <3>1. j \in 1..(Len(l) - 1) /\ m[j].url.at = at /\ m[j].by = "catalog"
      BY <2>0 DEF Found
    <3>2. CASE j < i
      BY <2>0, <1>2, <3>1, <3>2 DEF Found
    <3>3. CASE ~(j < i)
      <4>1. m[j] = l[j + 1] /\ j + 1 \in DOMAIN l
        BY <2>0, <1>2, <3>1, <3>3
      <4> QED
        BY <3>1, <3>3, <4>1 DEF Found
    <3> QED
      BY <3>2, <3>3
  <2>2. f \in [Found(m, at) -> Found(l, at)]
    BY <2>1
  <2>3. \A j, k \in Found(m, at) : f[j] = f[k] => j = k
    BY <2>0 DEF Found
  <2>4. f \in Injection(Found(m, at), Found(l, at))
    BY <2>2, <2>3 DEF Injection, IsInjective
  <2>5. IsFiniteSet(Found(l, at))
    BY <2>0, CountType
  <2> HIDE DEF f
  <2> QED
    BY <2>4, <2>5, FS_Injection
<1> QED
  BY <1>3, <1>4

\* An update leaves a record to the catalog only if it leaves its url.
LEMMA ChangeCount ==
    ASSUME NEW l, AllSources(l), NEW i \in DOMAIN l, NEW name, NEW url, NEW enabled,
           NEW m, m = [l EXCEPT ![i] = Changed(@, name, url, enabled)]
    PROVE  AllSources(m) /\ \A at : Cardinality(Found(m, at)) <= Cardinality(Found(l, at))
<1> DEFINE x == Changed(l[i], name, url, enabled)
<1>0. m = [l EXCEPT ![i] = x]
  OBVIOUS
<1>1. PICK S : l \in Seq(S) /\ \A r \in S : IsSource(r)
  BY DEF AllSources
<1>2. IsSource(l[i])
  BY <1>1
<1>3. IsSource(x) /\ (x.by = "catalog" => l[i].by = "catalog" /\ x.url = l[i].url)
  <2>1. {"id", "url", "by"} \subseteq DOMAIN x
    BY <1>2 DEF Changed, IsSource
  <2>2. CASE url = Keep
    <3>1. x.url = l[i].url /\ x.by = l[i].by
      BY <1>2, <2>2 DEF Changed, IsSource
    <3> QED
      BY <1>2, <2>1, <3>1 DEF IsSource
  <2>3. CASE url # Keep
    <3>1. x.by = "operator"
      BY <1>2, <2>3 DEF Changed, IsSource
    <3> QED
      BY <2>1, <3>1 DEF IsSource
  <2> QED
    BY <2>2, <2>3
<1> HIDE DEF x
<1>4. m \in Seq(S \union {x}) /\ Len(m) = Len(l) /\ DOMAIN m = DOMAIN l
  BY <1>0, <1>1
<1>5. AllSources(m)
  BY <1>1, <1>3, <1>4 DEF AllSources
<1>6. ASSUME NEW at
      PROVE  Cardinality(Found(m, at)) <= Cardinality(Found(l, at))
  <2>1. \A j \in DOMAIN l : m[j] = IF j = i THEN x ELSE l[j]
    BY <1>0
  <2>2. Found(m, at) \subseteq Found(l, at)
    BY <1>3, <1>4, <2>1 DEF Found
  <2>3. IsFiniteSet(Found(l, at))
    BY <1>5, SourcesFacts, CountType
  <2> QED
    BY <2>2, <2>3, FS_Subset
<1> QED
  BY <1>5, <1>6

LEMMA TailCount ==
    ASSUME NEW S, NEW l \in Seq(S), l # <<>>, NEW at
    PROVE  /\ Tail(l) \in Seq(S) /\ l[1] \in S
           /\ Cardinality(Waiting(Tail(l), at)) <= Cardinality(Waiting(l, at))
           /\ l[1].url.at = at => Cardinality(Waiting(Tail(l), at)) + 1 <= Cardinality(Waiting(l, at))
<1> DEFINE m == Tail(l)
           W == Waiting(l, at) \ {1}
           f == [j \in Waiting(m, at) |-> j + 1]
<1>1. /\ Len(l) \in Nat \ {0} /\ DOMAIN l = 1..Len(l) /\ DOMAIN m = 1..(Len(l) - 1)
      /\ m \in Seq(S) /\ l[1] \in S /\ \A j \in 1..(Len(l) - 1) : m[j] = l[j + 1]
  OBVIOUS
<1> HIDE DEF m
<1>2. \A j \in Waiting(m, at) : j + 1 \in W
  BY <1>1 DEF Waiting
<1>3. f \in [Waiting(m, at) -> W]
  BY <1>2
<1>4. \A j, k \in Waiting(m, at) : f[j] = f[k] => j = k
  BY <1>1 DEF Waiting
<1>5. f \in Injection(Waiting(m, at), W)
  BY <1>3, <1>4 DEF Injection, IsInjective
<1>6. IsFiniteSet(Waiting(l, at)) /\ IsFiniteSet(W)
  BY <1>1, CountType, FS_RemoveElement
<1>7. /\ Cardinality(W) <= Cardinality(Waiting(l, at))
      /\ 1 \in Waiting(l, at) => Cardinality(W) = Cardinality(Waiting(l, at)) - 1
  BY <1>6, FS_RemoveElement, FS_Subset
<1> HIDE DEF f
<1>8. Cardinality(Waiting(m, at)) <= Cardinality(W)
  BY <1>5, <1>6, FS_Injection
<1>9. l[1].url.at = at => 1 \in Waiting(l, at)
  BY <1>1 DEF Waiting
<1> HIDE DEF W
<1>10. /\ Cardinality(Waiting(m, at)) \in Nat /\ Cardinality(W) \in Nat
       /\ Cardinality(Waiting(l, at)) \in Nat
  BY <1>1, <1>6, CountType, FS_CardinalityType
<1> QED
  BY <1>1, <1>7, <1>8, <1>9, <1>10 DEF m

-----------------------------------------------------------------------------
\* A discovery lists what it finds where it was not listed, and what one that was
\* cut short has listed is known to the next: what is listed for a url and what is
\* still to be added for it are together what the portals answered.
Plain(at) == [at |-> at, padded |-> FALSE]

Few(l) ==
    \A at \in Clean : \E a \in Answers :
        at \in DOMAIN Times[a] /\ Cardinality(Found(l, at)) <= Times[a][at]

Adding(a) ==
    /\ left \in Seq(ToSet(Discover(a)))
    /\ \A at \in Clean : Plain(at) \notin known =>
          Cardinality(Found(list, at)) + Cardinality(Waiting(left, at)) <=
             Cardinality(Waiting(Discover(a), at))

AllSeeds(l) == \E S : l \in Seq(S) /\ \A r \in S : IsSource(r) /\ r.by # "catalog"

FoundInv ==
    /\ AllSources(list) /\ AllSources(file)
    /\ doing = "starting" => AllSeeds(left)
    /\ Few(list) /\ Few(file)
    /\ doing = "adding" => \E a \in Answers : Adding(a)

LEMMA TimesAre ==
    ASSUME NEW a \in Answers
    PROVE  /\ DOMAIN Times[a] = {o.url.at : o \in ToSet(Discover(a))}
           /\ \A at \in DOMAIN Times[a] : Times[a][at] = Cardinality(Waiting(Discover(a), at))
  BY DEF Times, Waiting

LEMMA DiscoverCount ==
    ASSUME NEW a \in Answers, NEW at
    PROVE  Cardinality(Waiting(Discover(a), at)) \in Nat
<1>1. Discover(a) \in Seq(Offers(a))
  BY DiscoverType
<1> DEFINE d == Discover(a)
<1> HIDE DEF d
<1>2. d \in Seq(Offers(a)) => Len(d) \in Nat /\ DOMAIN d = 1..Len(d)
  OBVIOUS
<1> QED
  BY <1>1, <1>2, CountType DEF d

\* A list that has nothing of the catalog, or no more than another has.
LEMMA FewNone ==
    ASSUME NEW l, \A at : Found(l, at) = {}
    PROVE  Few(l)
<1> SUFFICES ASSUME NEW at \in Clean
             PROVE  \E a \in Answers : at \in DOMAIN Times[a] /\ 0 <= Times[a][at]
  BY FS_EmptySet DEF Few
<1>1. PICK a \in Answers : at \in DOMAIN Times[a]
  BY DEF Clean
<1>2. Times[a][at] \in Nat
  BY <1>1, TimesAre, DiscoverCount
<1> QED
  BY <1>1, <1>2

LEMMA FewLess ==
    ASSUME NEW l, NEW m, AllSources(l), AllSources(m), Few(l),
           \A at \in Clean : Cardinality(Found(m, at)) <= Cardinality(Found(l, at))
    PROVE  Few(m)
<1> SUFFICES ASSUME NEW at \in Clean
             PROVE  \E a \in Answers : at \in DOMAIN Times[a] /\ Cardinality(Found(m, at)) <= Times[a][at]
  BY DEF Few
<1>1. PICK a \in Answers : at \in DOMAIN Times[a] /\ Cardinality(Found(l, at)) <= Times[a][at]
  BY DEF Few
<1>2. Times[a][at] \in Nat
  BY <1>1, TimesAre, DiscoverCount
<1>3. Cardinality(Found(l, at)) \in Nat /\ Cardinality(Found(m, at)) \in Nat
  BY SourcesFacts, CountType
<1> QED
  BY <1>1, <1>2, <1>3

LEMMA EmptySources == AllSources(<<>>) /\ \A at : Found(<<>>, at) = {}
<1>1. <<>> \in Seq({}) /\ DOMAIN <<>> = {}
  OBVIOUS
<1>2. AllSources(<<>>)
  BY <1>1, Zenon DEF AllSources
<1> QED
  BY <1>1, <1>2 DEF Found

LEMMA FoundInit == Init => FoundInv
<1> SUFFICES ASSUME Init PROVE FoundInv
  OBVIOUS
<1>1. list = <<>> /\ file = <<>> /\ doing = "down"
  BY DEF Init
<1> QED
  BY <1>1, EmptySources, FewNone DEF FoundInv

LEMMA SeedsAreSeeds == AllSeeds(Seeds)
<1>1. \A r \in ToSet(Seeds) : IsSource(r) /\ r.by # "catalog"
  BY SeedsAssumption DEF ToSet, IsSource
<1> QED
  BY <1>1, SeedsAssumption DEF AllSeeds, IsSequence

\* A clean url that is found is written without white space.
LEMMA FoundPlain ==
    ASSUME NEW a \in Answers, NEW o \in ToSet(Discover(a))
    PROVE  IsUrl(o.url) /\ (o.url.at \in Clean => o.url = Plain(o.url.at))
<1>1. IsUrl(o.url)
  <2>1. Discover(a) \in Seq(Offers(a)) /\ \A x \in Offers(a) : IsUrl(x.url)
    BY DiscoverType
  <2> DEFINE d == Discover(a)
  <2> HIDE DEF d
  <2>2. d \in Seq(Offers(a)) => ToSet(d) \subseteq Offers(a)
    BY DEF ToSet
  <2> QED
    BY <2>1, <2>2 DEF d
<1>2. o.url.at \in Clean => ~o.url.padded
  BY DEF Clean
<1> QED
  BY <1>1, <1>2 DEF IsUrl, Plain

\* A new source is of the catalog only if the catalog adds it.
LEMMA NewSources ==
    ASSUME NEW name, NEW url, NEW by, by = "catalog" => IsUrl(url)
    PROVE  LET s == NewSource(name, url, by) IN
           /\ IsSource(s) /\ s.by = by
           /\ by = "catalog" => s.url.at = url.at
<1> DEFINE s == NewSource(name, url, by)
<1>1. {"id", "url", "by"} \subseteq DOMAIN s /\ s.by = by /\ s.url = [url EXCEPT !.padded = FALSE]
  BY DEF NewSource, Trim
<1>2. by = "catalog" => s.url = [at |-> url.at, padded |-> FALSE]
  BY <1>1 DEF IsUrl
<1> HIDE DEF s
<1>3. ASSUME NEW u, NEW at, u = [at |-> at, padded |-> FALSE]
      PROVE  u.at = at /\ ~u.padded /\ IsUrl(u)
  BY <1>3 DEF IsUrl
<1>4. by = "catalog" => s.url.at = url.at /\ IsUrl(s.url) /\ ~s.url.padded
  BY <1>2, <1>3
<1> QED
  BY <1>1, <1>4 DEF IsSource, s

LEMMA AddingStep == FoundInv /\ AddFound => FoundInv'
<1> SUFFICES ASSUME FoundInv, AddFound
             PROVE  FoundInv'
  OBVIOUS
<1>0. /\ doing = "adding" /\ doing' = "adding" /\ left # <<>> /\ left' = Tail(left) /\ known' = known
      /\ AllSources(list) /\ AllSources(file) /\ Few(list) /\ Few(file)
  BY DEF AddFound, FoundInv
<1>1. PICK a \in Answers : Adding(a)
  BY <1>0 DEF FoundInv
<1> DEFINE D == Discover(a)
           o == left[1]
<1>2. /\ o \in ToSet(D) /\ left' \in Seq(ToSet(D))
      /\ \A at : /\ Cardinality(Waiting(left', at)) <= Cardinality(Waiting(left, at))
                 /\ o.url.at = at =>
                       Cardinality(Waiting(left', at)) + 1 <= Cardinality(Waiting(left, at))
  BY <1>0, <1>1, TailCount DEF Adding
<1>3. \A at : /\ Cardinality(Waiting(left', at)) \in Nat /\ Cardinality(Waiting(left, at)) \in Nat
              /\ Cardinality(Waiting(D, at)) \in Nat /\ Cardinality(Found(list, at)) \in Nat
  <2> DEFINE S == ToSet(D)
  <2>1. left \in Seq(S) /\ left' \in Seq(S)
    BY <1>1, <1>2 DEF Adding
  <2> HIDE DEF S
  <2>2. DOMAIN left = 1..Len(left) /\ Len(left) \in Nat /\ DOMAIN left' = 1..Len(left') /\ Len(left') \in Nat
    BY <2>1
  <2> QED
    BY <1>0, <2>2, CountType, DiscoverCount, SourcesFacts
<1>4. IsUrl(o.url) /\ (o.url.at \in Clean => o.url = Plain(o.url.at))
  BY <1>2, FoundPlain
<1> HIDE DEF D, o
<1>5. CASE o.url \in known
  <2>1. list' = list /\ file' = file
    BY <1>5 DEF AddFound, o
  <2>2. \A at \in Clean : Plain(at) \notin known =>
           Cardinality(Found(list', at)) + Cardinality(Waiting(left', at)) <= Cardinality(Waiting(D, at))
    <3> SUFFICES ASSUME NEW at \in Clean, Plain(at) \notin known
                 PROVE  Cardinality(Found(list, at)) + Cardinality(Waiting(left', at)) <=
                           Cardinality(Waiting(D, at))
      BY <2>1
    <3>1. Cardinality(Found(list, at)) + Cardinality(Waiting(left, at)) <= Cardinality(Waiting(D, at))
      BY <1>1 DEF Adding, D
    <3> QED
      BY <1>2, <1>3, <3>1
  <2>3. Adding(a)'
    BY <1>0, <1>2, <2>2 DEF Adding, D, Found, Waiting
  <2> QED
    BY <1>0, <2>1, <2>3 DEF FoundInv, Few, Found
<1>6. CASE o.url \notin known
  <2> DEFINE x == NewSource(o.name, o.url, "catalog")
  <2>1. list' = Append(list, x) /\ file' = list'
    BY <1>6 DEF AddFound, Persist, o
  <2>2. IsSource(x) /\ x.by = "catalog" /\ x.url.at = o.url.at
    BY <1>4, NewSources
  <2> HIDE DEF x
  <2>3. /\ AllSources(list')
        /\ \A at : IF at = o.url.at
                   THEN Cardinality(Found(list', at)) = Cardinality(Found(list, at)) + 1
                   ELSE Found(list', at) = Found(list, at)
    BY <1>0, <2>1, <2>2, AppendCount
  <2>4. \A at \in Clean : Plain(at) \notin known =>
           Cardinality(Found(list', at)) + Cardinality(Waiting(left', at)) <= Cardinality(Waiting(D, at))
    <3> SUFFICES ASSUME NEW at \in Clean, Plain(at) \notin known
                 PROVE  Cardinality(Found(list', at)) + Cardinality(Waiting(left', at)) <=
                           Cardinality(Waiting(D, at))
      OBVIOUS
    <3>1. Cardinality(Found(list, at)) + Cardinality(Waiting(left, at)) <= Cardinality(Waiting(D, at))
      BY <1>1 DEF Adding, D
    <3>2. CASE at = o.url.at
      BY <1>2, <1>3, <2>3, <3>1, <3>2
    <3>3. CASE at # o.url.at
      BY <1>2, <1>3, <2>3, <3>1, <3>3
    <3> QED
      BY <3>2, <3>3
  <2>5. Adding(a)'
    BY <1>0, <1>2, <2>4 DEF Adding, D, Found, Waiting
  <2>6. Few(list')
    <3> SUFFICES ASSUME NEW at \in Clean
                 PROVE  \E b \in Answers :
                           at \in DOMAIN Times[b] /\ Cardinality(Found(list', at)) <= Times[b][at]
      BY DEF Few
    <3>1. CASE at = o.url.at
      <4>1. Plain(at) \notin known
        BY <1>4, <1>6, <3>1
      <4>2. at \in DOMAIN Times[a] /\ Times[a][at] = Cardinality(Waiting(D, at))
        <5>1. at \in {y.url.at : y \in ToSet(D)}
          BY <1>2, <3>1 DEF o, D
        <5> QED
          BY <5>1, TimesAre DEF D
      <4>3. Cardinality(Found(list', at)) + Cardinality(Waiting(left', at)) <= Cardinality(Waiting(D, at))
        BY <2>4, <4>1
      <4>4. Cardinality(Found(list', at)) \in Nat
        BY <2>3, SourcesFacts, CountType
      <4> QED
        BY <1>3, <4>2, <4>3, <4>4
    <3>2. CASE at # o.url.at
      BY <1>0, <2>3, <3>2 DEF Few
    <3> QED
      BY <3>1, <3>2
  <2> QED
    BY <1>0, <2>1, <2>3, <2>5, <2>6 DEF FoundInv, Few, AllSources, Found
<1> QED
  BY <1>5, <1>6

LEMMA FoundNext == FoundInv /\ [Next]_vars => FoundInv'
<1> SUFFICES ASSUME FoundInv, [Next]_vars
             PROVE  FoundInv'
  OBVIOUS
<1>0. AllSources(list) /\ AllSources(file) /\ Few(list) /\ Few(file)
  BY DEF FoundInv
\* List and file are lists with no more of the catalog than the list had.
<1>a. ASSUME AllSources(list'), AllSources(file'), Few(list'), Few(file'),
             doing' \notin {"starting", "adding"}
      PROVE  FoundInv'
  <2>1. AllSources(list)' /\ AllSources(file)' /\ Few(list)' /\ Few(file)'
    BY <1>a DEF AllSources, Few, Found, Times, Clean
  <2> QED
    BY <1>a, <2>1 DEF FoundInv
<1>b. ASSUME NEW l, AllSources(l), Few(l), Persist(l), doing' \notin {"starting", "adding"}
      PROVE  FoundInv'
  BY <1>a, <1>b DEF Persist
<1>c. ASSUME UNCHANGED <<list, file>>, doing' \notin {"starting", "adding"}
      PROVE  FoundInv'
  BY <1>0, <1>a, <1>c
<1>d. ASSUME Down, file' \in {list, file}
      PROVE  FoundInv'
  <2>1. list' = <<>> /\ doing' = "down"
    BY <1>d DEF Down
  <2>2. AllSources(list') /\ Few(list')
    BY <2>1, EmptySources, FewNone
  <2> QED
    BY <1>0, <1>a, <1>d, <2>1, <2>2
<1>1. CASE Start
  <2>1. list' = file /\ file' = file /\ left' = Seeds /\ doing' = "starting"
    BY <1>1 DEF Start
  <2>2. AllSeeds(left')
    BY <2>1, SeedsAreSeeds
  <2> QED
    BY <1>0, <2>1, <2>2 DEF FoundInv, AllSources, AllSeeds, Few, Found
<1>2. CASE Seed
  <2>1. /\ doing = "starting" /\ doing' = "starting" /\ left # <<>> /\ left' = Tail(left) /\ file' = file
        /\ list' = IF left[1].id \in Ids(list) THEN list ELSE Append(list, left[1])
    BY <1>2 DEF Seed
  <2>2. PICK S : left \in Seq(S) /\ \A r \in S : IsSource(r) /\ r.by # "catalog"
    BY <2>1 DEF FoundInv, AllSeeds
  <2>3. left[1] \in S /\ left' \in Seq(S)
    BY <2>1, <2>2
  <2>4. AllSources(list') /\ \A at : Found(list', at) = Found(list, at)
    BY <1>0, <2>1, <2>2, <2>3, AppendCount
  <2>5. Few(list')
    BY <1>0, <2>4 DEF Few
  <2>6. AllSeeds(left')
    BY <2>2, <2>3 DEF AllSeeds
  <2> QED
    BY <1>0, <2>1, <2>4, <2>5, <2>6 DEF FoundInv, AllSources, AllSeeds, Few, Found
<1>3. CASE Seeded
  BY <1>0, <1>3, <1>b DEF Seeded
<1>4. CASE StartDies
  BY <1>4, <1>d DEF StartDies
<1>5. CASE Stop
  BY <1>5, <1>d DEF Stop
<1>6. CASE RunDies
  BY <1>6, <1>d DEF RunDies
<1>7. CASE Tick \/ UNCHANGED vars
  BY <1>7 DEF Tick, working, vars, FoundInv, AllSources, AllSeeds, Few, Found, Adding, Waiting
<1>8. CASE AddSource
  <2>1. PICK name \in Names, url \in Urls : Persist(Append(list, NewSource(name, url, "operator")))
    BY <1>8 DEF AddSource
  <2> DEFINE x == NewSource(name, url, "operator")
  <2>2. IsSource(x) /\ x.by = "operator"
    BY NewSources
  <2> HIDE DEF x
  <2>3. AllSources(Append(list, x)) /\ \A at : Found(Append(list, x), at) = Found(list, at)
    BY <1>0, <2>2, AppendCount
  <2>4. Few(Append(list, x))
    BY <1>0, <2>3 DEF Few
  <2>5. Persist(Append(list, x)) /\ doing' = "idle"
    BY <1>8, <2>1 DEF AddSource, x
  <2> QED
    BY <1>b, <2>3, <2>4, <2>5
<1>9. CASE UpdateSource
  <2>1. PICK i \in Firsts, name \in Names \union {Keep, Blank}, url \in Urls \union {Keep, Blank},
             enabled \in {Keep, FALSE} :
           list' = [list EXCEPT ![i] = Changed(@, name, url, enabled)]
    BY <1>9 DEF UpdateSource, Persist
  <2>2. i \in DOMAIN list /\ doing' = "idle" /\ file' \in {list', file}
    BY <1>9 DEF UpdateSource, Persist, Firsts
  <2>3. AllSources(list') /\ \A at : Cardinality(Found(list', at)) <= Cardinality(Found(list, at))
    BY <1>0, <2>1, <2>2, ChangeCount
  <2>4. Few(list')
    BY <1>0, <2>3, FewLess
  <2> QED
    BY <1>0, <1>a, <2>2, <2>3, <2>4
<1>10. CASE RemoveSource
  <2>1. PICK i \in Firsts : Persist(RemoveAt(list, i))
    BY <1>10 DEF RemoveSource, Forget
  <2>2. /\ AllSources(RemoveAt(list, i))
        /\ \A at : Cardinality(Found(RemoveAt(list, i), at)) <= Cardinality(Found(list, at))
    BY <1>0, RemoveCount DEF Firsts
  <2>3. Few(RemoveAt(list, i))
    BY <1>0, <2>2, FewLess
  <2> QED
    BY <1>10, <1>b, <2>1, <2>2, <2>3 DEF RemoveSource
<1>11. CASE RemoveFile \/ Run \/ Added
  BY <1>11, <1>c DEF RemoveFile, Run, Added
<1>12. CASE Catalog
  <2>1. PICK a \in Answers : left' = Discover(a)
    BY <1>12 DEF Catalog
  <2>2. doing' = "adding" /\ known' = ListedUrls /\ list' = list /\ file' = file
    BY <1>12 DEF Catalog
  <2>3. left' \in Seq(ToSet(Discover(a)))
    <3> DEFINE d == Discover(a)
    <3>1. d \in Seq(Offers(a))
      BY DiscoverType
    <3> HIDE DEF d
    <3>2. d \in Seq(ToSet(d))
      BY <3>1 DEF ToSet
    <3> QED
      BY <2>1, <3>2 DEF d
  \* What the catalog listed for a clean url has that url, and is known.
  <2>4. ASSUME NEW at \in Clean, Plain(at) \notin known'
        PROVE  Found(list, at) = {}
    <3> SUFFICES ASSUME NEW i \in Found(list, at)
                 PROVE  FALSE
      OBVIOUS
    <3>1. i \in DOMAIN list /\ list[i].url.at = at /\ IsUrl(list[i].url) /\ ~list[i].url.padded
      BY <1>0, SourcesFacts DEF Found, IsSource
    <3>2. list[i].url = Plain(at)
      BY <3>1 DEF IsUrl, Plain
    <3> QED
      BY <2>2, <2>4, <3>1, <3>2 DEF ListedUrls
  <2>5. \A at \in Clean : Plain(at) \notin known' =>
           Cardinality(Found(list', at)) + Cardinality(Waiting(left', at)) <=
              Cardinality(Waiting(Discover(a), at))
    <3> SUFFICES ASSUME NEW at \in Clean, Plain(at) \notin known'
                 PROVE  Cardinality(Found(list', at)) + Cardinality(Waiting(left', at)) <=
                           Cardinality(Waiting(Discover(a), at))
      OBVIOUS
    <3>1. Cardinality(Found(list', at)) = 0
      BY <2>2, <2>4, FS_EmptySet
    <3>2. Waiting(left', at) = Waiting(Discover(a), at) /\ Cardinality(Waiting(Discover(a), at)) \in Nat
      BY <2>1, DiscoverCount
    <3> QED
      BY <3>1, <3>2
  <2>6. Adding(a)'
    BY <2>3, <2>5 DEF Adding, Found, Waiting
  <2> QED
    BY <1>0, <2>2, <2>6 DEF FoundInv, AllSources, Few, Found
<1>13. CASE AddFound
  BY <1>13, AddingStep
<1>14. CASE AddFails
  BY <1>14, <1>d DEF AddFails
<1> QED
  BY <1>1, <1>2, <1>3, <1>4, <1>5, <1>6, <1>7, <1>8, <1>9, <1>10, <1>11, <1>12, <1>13, <1>14 DEF Next

\* However often discovery is repeated, cut short and begun again, it lists a url no
\* more often than one answer of the portals has it.
THEOREM DiscoveryRepeats == Spec => []FoundOnce
<1>1. Init => FoundInv
  BY FoundInit
<1>2. FoundInv /\ [Next]_vars => FoundInv'
  BY FoundNext
<1>3. FoundInv => FoundOnce
  BY DEF FoundInv, Few, FoundOnce, Found
<1> QED
  BY <1>1, <1>2, <1>3, PTL DEF Spec
=============================================================================
