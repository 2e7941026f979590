----------------------------- MODULE SourceList -----------------------------
(* The list of sources (engine/store.cpp) and who changes it: the seeds of a   *)
(* start, the operator, and `catalog add` (commands.cpp) with what the portals *)
(* offer.  The list is rewritten whole on every change (write, then rename);   *)
(* the rest of a source, its state, records and cached fetch, has files of its *)
(* own.  The process may die between any two writes.  What a run does before   *)
(* it saves is Ingest's.                                                       *)
EXTENDS Catalog, FiniteSets

CONSTANTS
    Seeds,          \* data/sources.json: [id, name, url, enabled, copied], ids distinct
    Answers,        \* what the portals may answer one discovery
    Names, Urls,    \* what the operator types
    Blank,          \* a name or url of nothing but white space
    Keep,           \* a field an update leaves alone
    MaxTime,        \* bound on the seconds that pass
    MaxCommands     \* bound on starts and commands

IsSequence(s) == s \in Seq(ToSet(s))

ASSUME SeedsAssumption ==
    /\ IsSequence(Seeds)
    /\ \A i \in DOMAIN Seeds : {"id", "url", "by"} \subseteq DOMAIN Seeds[i] /\ Seeds[i].by # "catalog"

ASSUME AnswersAssumption ==
    \A answers \in Answers :
        /\ \A kind \in {"socrata", "arcgis", "ckan"} :
              /\ IsSequence(answers[kind])
              /\ \A i \in DOMAIN answers[kind] :
                    answers[kind][i] = NoAnswer \/ IsSequence(answers[kind][i])
        /\ \A i \in DOMAIN answers.ckan : answers.ckan[i] # NoAnswer =>
              \A package \in ToSet(answers.ckan[i]) :
                  /\ IsSequence(package.resources)
                  /\ \A r \in ToSet(package.resources) : r.url \in [at : {r.url.at}, padded : BOOLEAN]

VARIABLES
    doing,          \* "down", "starting", "idle", "adding" or "removing"
    list,           \* Store::sources_
    states,         \* ids with a learned state in memory (Store::states_)
    file,           \* sources.json
    saved,          \* the files of the sources: what is saved -> ids
    copies,         \* working copies made of seed files
    left,           \* start and catalog: what is still to be added
    known,          \* catalog: the urls that were listed when it began
    gone,           \* remove: the id whose files go, and the files still to go
    now,            \* the clock, in seconds
    commands,       \* how many starts and commands there were
    refused,        \* ids whose record a refused update half changed (history)
    torn            \* ids a write or a removal died on (history)

vars == <<doing, list, states, file, saved, copies, left, known, gone, now, commands, refused, torn>>
working == <<left, known, gone>>

Files == {"state", "tmp", "records", "cache"}
NoFiles == [id |-> Blank, files |-> <<>>]
Ids(l) == {l[i].id : i \in DOMAIN l}

Init ==
    /\ doing = "down" /\ list = <<>> /\ states = {} /\ file = <<>>
    /\ saved = [kind \in Files |-> {}] /\ copies = {}
    /\ left = <<>> /\ known = {} /\ gone = NoFiles
    /\ now = 0 /\ commands = 0 /\ refused = {} /\ torn = {}

Command == commands < MaxCommands /\ commands' = commands + 1

\* Mutant: the list is written only when it had nothing before.
PersistFirst(l) == list' = l /\ file' = (IF file = <<>> THEN l ELSE file) /\ refused' = {}

\* The whole list goes to its file, the fields of refused updates with it.
Persist(l) == list' = l /\ file' = l /\ refused' = {}

\* A start reads the list and every file of the state directory, a .tmp among them.
Start ==
    /\ doing = "down" /\ doing' = "starting" /\ Command
    /\ list' = file /\ left' = Seeds
    /\ states' = saved["state"] \union saved["tmp"]
    /\ UNCHANGED <<file, saved, copies, known, gone, now, refused, torn>>

\* A seed is added unless its id is listed; what the operator made of it stays.
Seed ==
    /\ doing = "starting" /\ left # <<>>
    /\ list' = IF left[1].id \in Ids(list) THEN list ELSE Append(list, left[1])
    /\ left' = Tail(left)
    /\ UNCHANGED <<doing, states, file, saved, copies, known, gone, now, commands, refused, torn>>

Copied == {list[i].url : i \in {j \in DOMAIN list : list[j].copied}}

\* The list is saved, then the working copies are made.
Seeded ==
    /\ doing = "starting" /\ left = <<>> /\ doing' = "idle"
    /\ Persist(list)
    /\ copies' = copies \union Copied
    /\ UNCHANGED <<states, saved, working, now, commands, torn>>

Trim(url) == [url EXCEPT !.padded = FALSE]

\* An id is made of the name, the url as given and the second it is added in.
NewSource(name, url, by) ==
    [id |-> <<name, url, now>>, name |-> name, url |-> Trim(url), enabled |-> TRUE,
     copied |-> FALSE, by |-> by]

AddSource ==
    /\ doing = "idle" /\ Command
    /\ \E name \in Names, url \in Urls : Persist(Append(list, NewSource(name, url, "operator")))
    /\ UNCHANGED <<doing, states, saved, copies, working, now, torn>>

\* An id stands for the first source that has it.
Firsts == {i \in DOMAIN list : \A j \in 1..(i - 1) : list[j].id # list[i].id}

Changed(s, name, url, enabled) ==
    [s EXCEPT !.name = IF name = Keep THEN @ ELSE name,
              !.url = IF url = Keep THEN @ ELSE Trim(url),
              !.by = IF url = Keep THEN @ ELSE "operator",
              !.enabled = IF enabled = Keep THEN @ ELSE enabled]

\* Fields are taken one by one; a blank one throws, after what went before it.
UpdateSource ==
    /\ doing = "idle" /\ Command
    /\ \E i \in Firsts, name \in Names \union {Keep, Blank}, url \in Urls \union {Keep, Blank},
          enabled \in {Keep, FALSE} :
          \/ name # Blank /\ url # Blank
             /\ Persist([list EXCEPT ![i] = Changed(@, name, url, enabled)])
          \/ name \notin {Blank, Keep} /\ url = Blank
             /\ list' = [list EXCEPT ![i] = Changed(@, name, Keep, Keep)]
             /\ refused' = refused \union {list[i].id} /\ UNCHANGED file
    /\ UNCHANGED <<doing, states, saved, copies, working, now, torn>>

\* Mutant: the state in memory is left to the next start.
RemoveFromList(i) == Persist(RemoveAt(list, i)) /\ UNCHANGED states

\* The record goes from the list, then the state from memory.
Forget(i) == Persist(RemoveAt(list, i)) /\ states' = states \ {list[i].id}

\* Then its files go one after the other; a .tmp a dying save left is not among them.
RemoveSource ==
    /\ doing = "idle" /\ doing' = "removing" /\ Command
    /\ \E i \in Firsts :
          /\ Forget(i)
          /\ gone' = [id |-> list[i].id, files |-> <<"state", "records", "cache">>]
    /\ UNCHANGED <<saved, copies, left, known, now, torn>>

RemoveFile ==
    /\ doing = "removing"
    /\ saved' = [saved EXCEPT ![Head(gone.files)] = @ \ {gone.id}]
    /\ IF Len(gone.files) = 1 THEN gone' = NoFiles /\ doing' = "idle"
       ELSE gone' = [gone EXCEPT !.files = Tail(@)] /\ UNCHANGED doing
    /\ UNCHANGED <<list, states, file, copies, left, known, now, commands, refused, torn>>

\* A run that ends well saves all there is of a source; its save takes any .tmp over.
Run ==
    /\ doing = "idle" /\ Command
    /\ \E id \in Ids(list) :
          /\ states' = states \union {id}
          /\ saved' = [kind \in Files |-> IF kind = "tmp" THEN saved[kind] \ {id}
                                          ELSE saved[kind] \union {id}]
          /\ torn' = torn \ {id}
    /\ UNCHANGED <<doing, list, file, copies, working, now, refused>>

\* Mutant: the sources that are switched off are not counted.
EnabledUrls == {list[i].url : i \in {j \in DOMAIN list : list[j].enabled}}

ListedUrls == {list[i].url : i \in DOMAIN list}

Catalog ==
    /\ doing = "idle" /\ doing' = "adding" /\ Command
    /\ \E answers \in Answers : left' = Discover(answers)
    /\ known' = ListedUrls
    /\ UNCHANGED <<list, states, file, saved, copies, gone, now, refused, torn>>

\* The urls known are those of the beginning; a new one is compared as it was found.
AddFound ==
    /\ doing = "adding" /\ left # <<>>
    /\ left[1].url \in known \/ left[1].name # Blank
    /\ IF left[1].url \in known THEN UNCHANGED <<list, file, refused>>
       ELSE Persist(Append(list, NewSource(left[1].name, left[1].url, "catalog")))
    /\ left' = Tail(left)
    /\ UNCHANGED <<doing, states, saved, copies, known, gone, now, commands, torn>>

Added ==
    /\ doing = "adding" /\ left = <<>> /\ doing' = "idle" /\ known' = {}
    /\ UNCHANGED <<list, states, file, saved, copies, left, gone, now, commands, refused, torn>>

Down ==
    /\ doing' = "down" /\ list' = <<>> /\ states' = {} /\ refused' = {}
    /\ left' = <<>> /\ known' = {} /\ gone' = NoFiles
    /\ UNCHANGED <<copies, now>>

\* A dataset without a name is not taken, and nothing catches what add_source throws.
AddFails ==
    /\ doing = "adding" /\ left # <<>> /\ left[1].url \notin known /\ left[1].name = Blank
    /\ Down /\ UNCHANGED <<file, saved, commands, torn>>

\* The process ends or dies, in the middle of a removal if that is what it does.
Stop ==
    /\ doing # "down" /\ Down
    /\ torn' = IF doing = "removing" THEN torn \union {gone.id} ELSE torn
    /\ UNCHANGED <<file, saved, commands>>

\* A start dies after the list is saved, before the working copies are made.
StartDies ==
    /\ doing = "starting" /\ left = <<>> /\ Down
    /\ file' = list
    /\ UNCHANGED <<saved, commands, torn>>

\* A run dies between the write of a state and its rename.
RunDies ==
    /\ doing = "idle" /\ Command /\ Down /\ UNCHANGED file
    /\ \E id \in Ids(list) :
          /\ saved' = [saved EXCEPT !["tmp"] = @ \union {id}, !["records"] = @ \union {id},
                                    !["cache"] = @ \union {id}]
          /\ torn' = torn \union {id}

Tick ==
    /\ now < MaxTime /\ now' = now + 1
    /\ UNCHANGED <<doing, list, states, file, saved, copies, working, commands, refused, torn>>

Next ==
    \/ Start \/ Seed \/ Seeded \/ StartDies \/ Stop \/ RunDies \/ Tick
    \/ AddSource \/ UpdateSource \/ RemoveSource \/ RemoveFile \/ Run
    \/ Catalog \/ AddFound \/ AddFails \/ Added

Spec == Init /\ [][Next]_vars
-----------------------------------------------------------------------------
\* What the list in memory has that its file has not is what a refused update left
\* in the record of its source: a restart loses nothing else.
FileIsMemory ==
    doing \notin {"down", "starting"} =>
        /\ Len(list) = Len(file)
        /\ \A i \in DOMAIN list :
              /\ list[i].id = file[i].id
              /\ list[i] # file[i] => list[i].id \in refused

\* A source that is removed takes what was learned of it along: a state without a
\* source, which a seed of that id would take up again, is left only by a write or a
\* removal the process died in.
NoStrayState ==
    /\ doing # "down" => states \subseteq Ids(list) \union torn
    /\ doing = "idle" => saved["state"] \subseteq Ids(list) \union torn

\* How often each answer has a url, and the urls no answer has with white space.
Times == [answers \in Answers |->
             [at \in {e.url.at : e \in ToSet(Discover(answers))} |->
                 Cardinality({i \in DOMAIN Discover(answers) : Discover(answers)[i].url.at = at})]]
Clean == {at \in UNION {DOMAIN Times[a] : a \in Answers} :
             \A a \in Answers : \A e \in ToSet(Discover(a)) : e.url.at = at => ~e.url.padded}

\* However often discovery is repeated, cut short and begun again, it lists a url no
\* more often than one discovery found it.  (A url with white space around it is
\* listed without it and found again.)
FoundOnce ==
    \A at \in Clean : \E a \in Answers :
        at \in DOMAIN Times[a] /\
        Cardinality({i \in DOMAIN list : list[i].url.at = at /\ list[i].by = "catalog"}) <= Times[a][at]
=============================================================================
