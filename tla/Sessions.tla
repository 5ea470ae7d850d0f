------------------------------- MODULE Sessions -------------------------------
(***************************************************************************)
(* Instances of amba run over one $AMBA_DATA_DIR, which amba init fills:   *)
(* SessionConfig::new and prepare_run, S2EConfig::new and save_to, and in  *)
(* the guest the bootstrap up to the program it analyses.                  *)
(*                                                                         *)
(* session_dir is named after the second in which an instance was started; *)
(* temp_dir has a random name and is taken to be new.  A file is its owner *)
(* and what it is; the host files a recipe names exist.                    *)
(***************************************************************************)
EXTENDS GuestImages, Recipes, FiniteSets

CONSTANTS Instances,
          MaxTime,      \* bound: seconds that pass
          MaxRanges     \* bound: ranges of a symbolic file

ASSUME SessionsAssumption == IsFiniteSet(Instances) /\ MaxTime \in Nat /\ MaxRanges \in Nat

Seconds == 0 .. MaxTime

\* Names of hostfiles, in the order of a BTreeMap.
Names == {"bootstrap.elf", "bootstrap.sh", "input", "prog", "recipe.json"}

Concrete(name) == [name |-> name, symbolic |-> FALSE, ranges |-> <<>>, length |-> 0]
Symbolic(name, ranges, length) ==
  [name |-> name, symbolic |-> TRUE, ranges |-> ranges, length |-> length]

\* Every way to make a file symbolic, and recipes with the session's own names.
RangesOfRecipes == UNION {[1 .. n -> SymbolicRange] : n \in 0 .. MaxRanges}

SymbolicRecipes ==
  {<<Symbolic("input", ranges, length), Concrete("prog")>> :
     ranges \in RangesOfRecipes, length \in Word}

Plain == <<Symbolic("input", <<IndexRange(0)>>, 1), Concrete("prog")>>

FewRecipes ==
  {Plain,
   <<Concrete("prog"), Concrete("recipe.json")>>,
   <<Concrete("bootstrap.elf"), Concrete("prog")>>,
   <<Concrete("bootstrap.sh"), Concrete("prog")>>}

VARIABLES now,
          doing,      \* what each instance does next
          recipe,     \* its recipe's files
          checked,    \* the build panics on overflow
          at,         \* the second of its session_dir
          foundNone,  \* that was not there when it looked
          todo,       \* files still to be copied, or to be got by the guest
          dirs,       \* the session_dir of each second
          got,        \* files in the guest of each instance
          marked      \* what the guest told S2E to make symbolic

sessionVars == <<now, doing, recipe, checked, at, foundNone, todo, dirs, got, marked>>
vars == <<imageVars, sessionVars>>

Absent == [owner |-> "nobody", is |-> "absent"]
Script == [owner |-> "nobody", is |-> "script"]
Link == [owner |-> "nobody", is |-> "link"]
FileOf(i) == [owner |-> i, is |-> "file"]
RecipeOf(i) == [owner |-> i, is |-> "recipe"]

Contents == {Absent, Script, Link} \cup {FileOf(i) : i \in Instances} \cup {RecipeOf(i) : i \in Instances}
NoFiles == [name \in Names |-> Absent]

InGuest == {"getting", "fetching", "analysing", "lost"}
Doing == {"none", "off", "checking", "looking", "creating", "copying", "recording", "linking",
          "saving", "failed", "panicked"} \cup InGuest

TypeOK ==
  /\ ImagesTypeOK
  /\ now \in Seconds
  /\ doing \in [Instances -> Doing]
  /\ checked \in BOOLEAN
  /\ at \in [Instances -> Seconds]
  /\ foundNone \in [Instances -> BOOLEAN]
  /\ \A s \in Seconds :
       dirs[s].exists \in BOOLEAN /\ dirs[s].tools \in BOOLEAN /\ dirs[s].host \in [Names -> Contents]
  /\ got \in [Instances -> [Names -> Contents]]

NewDir == [exists |-> FALSE, tools |-> FALSE, host |-> NoFiles]

SessionsInit ==
  /\ now = 0
  /\ at = [i \in Instances |-> 0]
  /\ foundNone = [i \in Instances |-> FALSE]
  /\ todo = [i \in Instances |-> <<>>]
  /\ dirs = [s \in Seconds |-> NewDir]
  /\ got = [i \in Instances |-> NoFiles]
  /\ marked = [i \in Instances |-> <<>>]

Only(i) == [j \in Instances |-> IF j = i THEN "off" ELSE "none"]

\* The data directory is ready, and amba init is not run again.
Ready ==
  /\ DownloadInit /\ honours
  /\ initializer \in Builds /\ version = initializer
  /\ images = [Partial("none") EXCEPT !.whole = TRUE, !.readonly = TRUE] /\ building = None
  /\ step = "idle" /\ forced = FALSE /\ failedAt = "none" /\ inits = MaxInits

\* To keep the instances small: amba init with one amba run, or several
\* instances of amba run, or one with any of the symbolic files.
Init ==
  /\ SessionsInit
  /\ \/ /\ ImagesInit
        /\ \E i \in Instances : doing = Only(i)
        /\ recipe = [i \in Instances |-> Plain] /\ checked = FALSE
     \/ /\ Ready
        /\ doing = [i \in Instances |-> "off"]
        /\ recipe \in [Instances -> FewRecipes] /\ checked = FALSE
     \/ /\ Ready
        /\ \E i \in Instances : doing = Only(i)
        /\ \E files \in SymbolicRecipes : recipe = [i \in Instances |-> files]
        /\ checked \in BOOLEAN

-----------------------------------------------------------------------------
Does(i, next) == doing' = [doing EXCEPT ![i] = next]

Tick == now < MaxTime /\ now' = now + 1
        /\ UNCHANGED <<imageVars, doing, recipe, checked, at, foundNone, todo, dirs, got, marked>>

\* deserialize_from normalises the ranges of every file.
Normal(file) == [file EXCEPT !.ranges = Normalize(file.ranges)]
NormalFiles(files) == [k \in DOMAIN files |-> Normal(files[k])]

Some(files, Fails(_)) ==
  \E k \in DOMAIN files : \E n \in DOMAIN files[k].ranges : Fails(files[k].ranges[n])

\* SessionConfig::new
Configure(i) ==
  /\ doing[i] = "off"
  /\ at' = [at EXCEPT ![i] = now]
  /\ IF checked /\ Some(recipe[i], Overflows)
     THEN Does(i, "panicked") /\ UNCHANGED todo
     ELSE Does(i, "checking") /\ todo' = [todo EXCEPT ![i] = NormalFiles(recipe[i])]
  /\ UNCHANGED <<imageVars, now, recipe, checked, foundNone, dirs, got, marked>>

\* data_dir_has_been_initialized
Initialized == version \notin {"none", "empty"}

Check(i) ==
  /\ doing[i] = "checking"
  /\ Does(i, IF Initialized THEN "looking" ELSE "failed")
  /\ UNCHANGED <<imageVars, now, recipe, checked, at, foundNone, todo, dirs, got, marked>>

\* Mutant: an existing session_dir is taken over.
NeverThere(i) == FALSE

IsTaken(i) == dirs[at[i]].exists

Look(i) ==
  /\ doing[i] = "looking"
  /\ Does(i, IF IsTaken(i) THEN "failed" ELSE "creating")
  /\ foundNone' = [foundNone EXCEPT ![i] = ~dirs[at[i]].exists]
  /\ UNCHANGED <<imageVars, now, recipe, checked, at, todo, dirs, got, marked>>

\* create_dir_all does not mind when another instance was faster.
CreateDirs(i) ==
  /\ doing[i] = "creating"
  /\ Does(i, "copying")
  /\ dirs' = [dirs EXCEPT ![at[i]].exists = TRUE]
  /\ UNCHANGED <<imageVars, now, recipe, checked, at, foundNone, todo, got, marked>>

WriteHost(i, name, content) == dirs' = [dirs EXCEPT ![at[i]].host[name] = content]

\* One file of the recipe.  The bootstrap's link leads to where nothing can
\* be written.
CopyFile(i) ==
  /\ doing[i] = "copying"
  /\ IF todo[i] = <<>> THEN Does(i, "recording") /\ UNCHANGED <<todo, dirs>>
     ELSE IF dirs[at[i]].host[Head(todo[i]).name] = Link
     THEN Does(i, "panicked") /\ UNCHANGED <<todo, dirs>>
     ELSE /\ WriteHost(i, Head(todo[i]).name, FileOf(i))
          /\ todo' = [todo EXCEPT ![i] = Tail(@)]
          /\ UNCHANGED doing
  /\ UNCHANGED <<imageVars, now, recipe, checked, at, foundNone, got, marked>>

Record(i) ==
  /\ doing[i] = "recording"
  /\ WriteHost(i, "recipe.json", RecipeOf(i))
  /\ Does(i, "linking")
  /\ UNCHANGED <<imageVars, now, recipe, checked, at, foundNone, todo, got, marked>>

\* A symbolic link is made by one instance, or not at all.
IsLinked(i) == dirs[at[i]].tools

LinkTools(i) ==
  /\ doing[i] = "linking"
  /\ dirs' = [dirs EXCEPT ![at[i]].tools = TRUE,
                          ![at[i]].host["bootstrap.elf"] =
                             IF @ = Absent /\ ~IsLinked(i) THEN Link ELSE @]
  /\ Does(i, IF IsLinked(i) \/ dirs[at[i]].host["bootstrap.elf"] \notin {Absent, Link}
             THEN "panicked" ELSE "saving")
  /\ UNCHANGED <<imageVars, now, recipe, checked, at, foundNone, todo, got, marked>>

\* bootstrap.sh and s2e-config.lua; then QEMU starts.
Save(i) ==
  /\ doing[i] = "saving"
  /\ WriteHost(i, "bootstrap.sh", Script)
  /\ Does(i, "getting")
  /\ UNCHANGED <<imageVars, now, recipe, checked, at, foundNone, todo, got, marked>>

-----------------------------------------------------------------------------
(* The bootstrap, in the guest of instance i.  s2ecmd get reads hostfiles  *)
(* when it is called.                                                      *)

GetRecipe(i) ==
  /\ doing[i] = "getting"
  /\ LET json == dirs[at[i]].host["recipe.json"]
     IN  /\ got' = [got EXCEPT ![i]["recipe.json"] = json]
         /\ IF json.is = "recipe"
            THEN /\ Does(i, "fetching")
                 /\ todo' = [todo EXCEPT ![i] = NormalFiles(NormalFiles(recipe[json.owner]))]
            ELSE Does(i, "lost") /\ UNCHANGED todo
  /\ UNCHANGED <<imageVars, now, recipe, checked, at, foundNone, dirs, marked>>

\* One file, made symbolic when the recipe says so.
GetFile(i) ==
  /\ doing[i] = "fetching"
  /\ IF todo[i] = <<>> THEN Does(i, "analysing") /\ UNCHANGED <<todo, got, marked>>
     ELSE LET file == Head(todo[i])
              in == InFile(file.ranges, file.length)
          IN  /\ got' = [got EXCEPT ![i][file.name] = dirs[at[i]].host[file.name]]
              /\ IF /\ file.symbolic
                    /\ \/ got'[i][file.name] = Absent
                       \/ checked /\ \E k \in DOMAIN in : Reversed(in[k])
                 THEN Does(i, "lost") /\ UNCHANGED <<todo, marked>>
                 ELSE /\ todo' = [todo EXCEPT ![i] = Tail(@)]
                      /\ marked' = [marked EXCEPT ![i] =
                                      IF file.symbolic THEN Symbfile(file.ranges, file.length) ELSE @]
                      /\ UNCHANGED doing
  /\ UNCHANGED <<imageVars, now, recipe, checked, at, foundNone, dirs>>

RunStep(i) ==
  \/ Configure(i) \/ Check(i) \/ Look(i) \/ CreateDirs(i) \/ CopyFile(i) \/ Record(i)
  \/ LinkTools(i) \/ Save(i) \/ GetRecipe(i) \/ GetFile(i)

Next == (ImagesNext /\ UNCHANGED sessionVars) \/ Tick \/ \E i \in Instances : RunStep(i)

Spec == Init /\ [][Next]_vars

-----------------------------------------------------------------------------
(* amba run goes on only when it looked at complete images, whatever       *)
(* amba init, and crashes of it, did before.                               *)
StartsOnImages ==
  [][\A i \in Instances :
       doing[i] = "checking" /\ doing'[i] = "looking" => images.exists /\ images.whole]_vars

(* amba init publishes images all at once or not at all, and amba run only *)
(* goes on where it has.                                                   *)
RunsOnPublished == ImagesPublished /\ StartsOnImages

(* Two instances that take the same directory for theirs, because they     *)
(* were started in the same second and looked before either created it,    *)
(* do not both get to a guest: the links can be made only once.            *)
OneGuestPerSession ==
  \A i, j \in Instances :
    doing[i] \in InGuest /\ doing[j] \in InGuest /\ at[i] = at[j] => i = j

Reserved == {"bootstrap.elf", "bootstrap.sh", "recipe.json"}

(* The guest gets the recipe and the files of its own instance, except     *)
(* files with a name the session itself uses, and unless another instance  *)
(* looked in the same second before the directory was there.               *)
OwnFiles ==
  \A i \in Instances :
    /\ doing[i] = "analysing"
    /\ \A j \in Instances \ {i} : ~(foundNone[j] /\ at[j] = at[i])
    => /\ got[i]["recipe.json"] = RecipeOf(i)
       /\ \A k \in DOMAIN recipe[i] :
            recipe[i][k].name \notin Reserved => got[i][recipe[i][k].name] = FileOf(i)

(* Instances that meet in one directory do not mix: there is one guest,    *)
(* and it gets its own files.                                              *)
SessionsApart == TypeOK /\ OneGuestPerSession /\ OwnFiles

(* The program meets exactly the symbolic bytes its recipe asks for, each  *)
(* named once, however the ranges overlap, wherever they end and though    *)
(* they are normalised on the host and again in the guest; only a range    *)
(* that ends before it starts may make other bytes symbolic.               *)
SymbolicAsAsked ==
  \A i \in Instances : \A k \in DOMAIN recipe[i] :
    LET file == recipe[i][k]
        marks == marked[i]
    IN  /\ doing = [Only(i) EXCEPT ![i] = "analysing"]
        /\ file.symbolic
        /\ \A n \in DOMAIN file.ranges : ~Reversed(file.ranges[n])
        => /\ UNION {BytesOf(marks[n]) : n \in DOMAIN marks} = Asked(file.ranges, file.length)
           /\ \A m, n \in DOMAIN marks :
                m < n => BytesOf(marks[m]) \cap BytesOf(marks[n]) = {}
=============================================================================
