------------------------------- MODULE Settings -------------------------------
(***************************************************************************)
(* What administrators set and events refer to by a text: environments and *)
(* their groups (src/src/lib/environment.ts), the workflows that name      *)
(* environments, and tags with their configuration (lib/tags.ts), each     *)
(* with the routes over it.  A query is a step; requests interleave with   *)
(* one another and with people who edit the tags of an event, and may be   *)
(* cut short by a restart.                                                 *)
(***************************************************************************)
EXTENDS Integers, FiniteSets, Sequences, SequencesExt

CONSTANTS EnvSlugs,
          References,   \* groups, workflows of products and services, events
          Events,
          Names,        \* names of tags
          SlugOf,       \* slugify: names may share a slug
          Colors,
          Jobs,         \* requests under way at once
          MaxJobs       \* bound: requests

ASSUME SettingsAssumption ==
    /\ SlugOf \in [Names -> STRING]
    /\ MaxJobs \in Nat

Unset == "unset"

ASSUME UnsetAssumption ==
    /\ Unset \notin Names \cup Colors
    /\ \A n \in Names : SlugOf[n] # Unset

VARIABLES env,       \* env[e]: [row, active]: the row of that slug, 0 when there is none
          rows,      \* rows of EnvironmentConfig ever created
          refers,    \* refers[f]: the slugs it names, each with the row it was checked against
          tags,      \* tags[v]: the array of the event
          config,    \* config[slug]: [id, name, color]; id: the slug and the request it was created with
          job,       \* job[j]: a request, and what it has read
          jobs

settingsVars == << env, rows, refers, tags, config, job, jobs >>

envVars == << env, rows, refers >>

tagVars == << tags, config >>

NoConfig == [id |-> << Unset, 0 >>, name |-> Unset, color |-> Unset]

slugs == {SlugOf[n] : n \in Names}

lists == UNION {[1..k -> Names] : k \in 0..2}

Ready == [pc |-> "ready", done |-> "nothing"]

SettingsInit ==
    /\ env = [e \in EnvSlugs |-> [row |-> 0, active |-> FALSE]]
    /\ rows = 0
    /\ refers = [f \in References |-> {}]
    /\ tags \in [Events -> {list \in lists : Cardinality(ToSet(list)) = Len(list)}]
    /\ config \in [slugs -> {NoConfig} \cup [id : slugs \X {0}, name : Names, color : Colors]]
    /\ \A s \in slugs : config[s] # NoConfig => config[s].id[1] = s /\ SlugOf[config[s].name] = s
    /\ job = [j \in Jobs |-> Ready]
    /\ jobs = 0

-----------------------------------------------------------------------------
accept(j, q) ==
    /\ job[j].pc = "ready"
    /\ jobs < MaxJobs
    /\ jobs' = jobs + 1
    /\ job' = [job EXCEPT ![j] = q]

\* The others learn that somebody wrote.
stir(f, mine) == [j \in Jobs |-> IF j \in mine \/ f[j].pc = "ready" THEN f[j]
                                 ELSE [f[j] EXCEPT !.disturbed = TRUE]]

next(j, pc) == [job EXCEPT ![j].pc = pc]

finish(j, done) == [job EXCEPT ![j] = [pc |-> "ready", done |-> done]]

-----------------------------------------------------------------------------
getActiveEnvSlugs == {e \in EnvSlugs : env[e].active}

\* createEnvironment: a slug is free when no row has it, active or not.
createEnvironment(e) ==
    /\ rows < Cardinality(EnvSlugs) + 1
    /\ env[e].row = 0
    /\ rows' = rows + 1
    /\ env' = [env EXCEPT ![e] = [row |-> rows + 1, active |-> TRUE]]
    /\ UNCHANGED << refers, tagVars, job, jobs >>

\* Mutant: the row goes.
deletedForGood(r) == [row |-> 0, active |-> FALSE]

deleted(r) == [r EXCEPT !.active = FALSE]

softDeleteEnvironment(e) ==
    /\ env[e].active
    /\ env' = [env EXCEPT ![e] = deleted(@)]
    /\ UNCHANGED << rows, refers, tagVars, job, jobs >>

\* Groups, workflows and events are checked against the active slugs, then written.
refer(j, f, S) ==
    /\ S # {}
    /\ S \subseteq getActiveEnvSlugs
    /\ accept(j, [pc |-> "refer", of |-> f, to |-> {<< e, env[e].row >> : e \in S}, disturbed |-> FALSE])
    /\ UNCHANGED << envVars, tagVars >>

writeReference(j) ==
    /\ job[j].pc = "refer"
    /\ refers' = [refers EXCEPT ![job[j].of] = job[j].to]
    /\ job' = finish(j, "referred")
    /\ UNCHANGED << env, rows, tagVars, jobs >>

-----------------------------------------------------------------------------
\* What is left of a list when only the places of I stay, in their order.
inOrder(I) == CHOOSE at \in [1..Cardinality(I) -> I] : \A i, k \in 1..Cardinality(I) : i < k => at[i] < at[k]

picked(list, I) == [k \in 1..Cardinality(I) |-> list[inOrder(I)[k]]]

untagged(list, name) == picked(list, {i \in DOMAIN list : list[i] # name})

onlyOnce(list) == picked(list, {i \in DOMAIN list : \A k \in 1..(i - 1) : list[k] # list[i]})

replaced(v, old, new) == [i \in DOMAIN tags[v] |-> IF tags[v][i] = old THEN new ELSE tags[v][i]]

\* setEventTags: the list that a page held, whatever became of the event since, without
\* what it says twice.
setEventTags(v, list) ==
    /\ jobs < MaxJobs
    /\ jobs' = jobs + 1
    /\ tags' = [tags EXCEPT ![v] = onlyOnce(list)]
    /\ job' = stir(job, {})
    /\ UNCHANGED << envVars, config >>

\* setTagColor: an upsert by slug (a new row has the number of the request).
colored(name, color, id) ==
    [config EXCEPT ![SlugOf[name]] = [id |-> IF @ = NoConfig THEN << SlugOf[name], id >> ELSE @.id, name |-> name, color |-> color]]

setTagColor(name, color) ==
    /\ jobs < MaxJobs
    /\ jobs' = jobs + 1
    /\ config' = colored(name, color, jobs + 1)
    /\ job' = stir(job, {})
    /\ UNCHANGED << envVars, tags >>

\* renameTag, and the color the same request may carry: the events ...
renameTag(j, old, new, color) ==
    /\ old # new
    /\ accept(j, [pc |-> "events", old |-> old, new |-> new, color |-> color,
                  number |-> jobs + 1, id |-> << Unset, 0 >>, was |-> config[SlugOf[old]].color, disturbed |-> FALSE])
    /\ UNCHANGED << envVars, tagVars >>

renameOnEvents(j) ==
    /\ job[j].pc = "events"
    /\ tags' = [v \in Events |-> replaced(v, job[j].old, job[j].new)]
    /\ job' = stir(next(j, "find"), {j})
    /\ UNCHANGED << envVars, config, jobs >>

\* ... the configuration of the old slug ...
findConfig(j) ==
    /\ job[j].pc = "find"
    /\ LET old == SlugOf[job[j].old]
           pc == IF config[old] = NoConfig THEN "color"
                 ELSE IF SlugOf[job[j].new] = old THEN "config" ELSE "free"
       IN  job' = [next(j, pc) EXCEPT ![j].id = config[old].id]
    /\ UNCHANGED << envVars, tagVars, jobs >>

\* ... makes room under the new slug ...
freeSlug(j) ==
    /\ job[j].pc = "free"
    /\ config' = [config EXCEPT ![SlugOf[job[j].new]] = NoConfig]
    /\ job' = stir(next(j, "config"), {j})
    /\ UNCHANGED << envVars, tags, jobs >>

holds(s, q) == config[s].id = q.id

\* Mutant: the configuration keeps its old slug.
movedConfigStill(q) == [s \in slugs |-> IF holds(s, q) THEN [config[s] EXCEPT !.name = q.new] ELSE config[s]]

movedConfig(q) ==
    LET c == CHOOSE c \in {config[s] : s \in slugs} : c.id = q.id
    IN  [s \in slugs |-> IF s = SlugOf[q.new] THEN [c EXCEPT !.name = q.new]
                         ELSE IF holds(s, q) THEN NoConfig ELSE config[s]]

\* ... and takes it, unless the row went, or the slug was taken again.
renameConfig(j) ==
    /\ job[j].pc = "config"
    /\ LET q == job[j]
           kept == \E s \in slugs : holds(s, q)
           room == config[SlugOf[q.new]] = NoConfig \/ holds(SlugOf[q.new], q)
       IN  IF kept /\ room
           THEN /\ config' = movedConfig(q)
                /\ job' = stir(next(j, "color"), {j})
           ELSE /\ UNCHANGED config
                /\ job' = finish(j, "failed")
    /\ UNCHANGED << envVars, tags, jobs >>

recolor(j) ==
    /\ job[j].pc = "color"
    /\ LET q == job[j]
       IN  IF q.color = Unset THEN UNCHANGED config ELSE config' = colored(q.new, q.color, q.number)
    /\ job' = stir(finish(j, "renamed"), {j})
    /\ UNCHANGED << envVars, tags, jobs >>

\* deleteTagEverywhere: the events, then the configuration of the slug.
deleteTagEverywhere(j, name) ==
    /\ accept(j, [pc |-> "remove", old |-> name, disturbed |-> FALSE])
    /\ UNCHANGED << envVars, tagVars >>

removeFromEvents(j) ==
    /\ job[j].pc = "remove"
    /\ tags' = [v \in Events |-> untagged(tags[v], job[j].old)]
    /\ job' = stir(next(j, "removeConfig"), {j})
    /\ UNCHANGED << envVars, config, jobs >>

removeConfig(j) ==
    /\ job[j].pc = "removeConfig"
    /\ config' = [config EXCEPT ![SlugOf[job[j].old]] = NoConfig]
    /\ job' = stir(finish(j, "deleted"), {j})
    /\ UNCHANGED << envVars, tags, jobs >>

\* A restart cuts a request short.
cut(j) ==
    /\ job[j].pc # "ready"
    /\ job' = finish(j, "cut")
    /\ UNCHANGED << envVars, tagVars, jobs >>

-----------------------------------------------------------------------------
\* listAllTags: the names on events or in a configuration, and the color of the slug.
tagNames == {n \in Names : (\E v \in Events : n \in ToSet(tags[v])) \/ \E s \in slugs : config[s].name = n}

tagColor(name) == config[SlugOf[name]].color

-----------------------------------------------------------------------------
environmentJob(j) ==
    \/ \E f \in References, S \in SUBSET EnvSlugs : refer(j, f, S)
    \/ writeReference(j)

tagJob(j) ==
    \/ \E old, new \in Names, color \in Colors \cup {Unset} : renameTag(j, old, new, color)
    \/ \E name \in Names : deleteTagEverywhere(j, name)
    \/ renameOnEvents(j)
    \/ findConfig(j)
    \/ freeSlug(j)
    \/ renameConfig(j)
    \/ recolor(j)
    \/ removeFromEvents(j)
    \/ removeConfig(j)

environmentStep ==
    \/ \E e \in EnvSlugs : createEnvironment(e) \/ softDeleteEnvironment(e)
    \/ \E j \in Jobs : environmentJob(j) \/ cut(j)

tagStep ==
    \/ \E v \in Events, list \in lists : setEventTags(v, list)
    \/ \E name \in Names, color \in Colors : setTagColor(name, color)
    \/ \E j \in Jobs : tagJob(j) \/ cut(j)

SettingsNext == environmentStep \/ tagStep

SettingsSpec == SettingsInit /\ [][SettingsNext]_settingsVars

-----------------------------------------------------------------------------
SettingsTypeOK ==
    /\ \A e \in EnvSlugs : env[e].row \in 0..rows
    /\ \A v \in Events : tags[v] \in Seq(Names)
    /\ \A s \in slugs : config[s] # NoConfig => config[s].name \in Names /\ SlugOf[config[s].name] = s
    /\ \A s, t \in slugs : config[s].id = config[t].id => s = t \/ config[s] = NoConfig

\* A group, a workflow or an event names an environment by its slug alone: it goes on
\* meaning the environment it was checked against, whatever is deleted and created
\* meanwhile, because the slug of a deleted one is never given again (environment.ts).
ReferencesKeepTheirMeaning ==
    \A f \in References : \A r \in refers[f] : env[r[1]].row = r[2]

\* A rename that nothing else disturbs leaves no event with the old name, and the
\* color of the old name, or the one it was given, to the new one (renameTag): also
\* after an earlier rename was cut short between the events and the configuration.
RenameIsComplete ==
    [][\A j \in Jobs :
         LET q == job[j]
             color == IF q.color # Unset THEN q.color ELSE q.was
         IN  q.pc = "color" /\ job'[j].pc = "ready" /\ job'[j].done = "renamed" /\ ~q.disturbed =>
                /\ q.old \notin tagNames'
                /\ color # Unset => config'[SlugOf[q.new]].color = color /\ q.new \in tagNames'
      ]_settingsVars
=============================================================================
