----------------------------- MODULE Configuration -----------------------------
(***************************************************************************)
(* Reading and validating the configuration: src/conf.  main calls Read    *)
(* once, before any other goroutine exists, so its parts are operators; an *)
(* action of ActionExecution applies them.                                 *)
(*                                                                         *)
(* Of a configuration file the model keeps what decides whether it is      *)
(* accepted and how its actions are executed: where it comes from, the API *)
(* key, and of each action its type, source, git options and file path.    *)
(* "actions" is a function from the names that the file maps.              *)
(***************************************************************************)
EXTENDS Naturals

CONSTANTS
  ActionNames,          \* names of actions a file may map
  Urls                  \* git repositories that its actions may name

ASSUME UrlsAssumption == Urls \cap {"none", "noUrl"} = {}

(* git.Options: "none" is the empty struct, "noUrl" one that has a key or a   *)
(* passphrase and no url.                                                     *)
GitOptions == {"none", "noUrl"} \cup Urls

(* MappedAction as written in the file.  "http" actions have fields of their  *)
(* own, whose method and url may be invalid; a type that is left out is "".   *)
(* "other" is any other string: nobody refuses it, and only a message of the  *)
(* same type is executed.                                                     *)
ActionSpecs ==
  [type : {"", "http", "other"}, validFields : BOOLEAN,
   sourceType : {"local", "git", "other"}, gitOptions : GitOptions, filepath : {"", "f"}]

ActionFiles == UNION {[names -> ActionSpecs] : names \in SUBSET ActionNames}

(* sourceType is JEC_CONF_SOURCE_TYPE in lower case ("other" also if not set);*)
(* extension that of the file at JEC_CONF_GIT_FILEPATH or                     *)
(* JEC_CONF_LOCAL_FILEPATH ("" if not set); readable: the file is there and   *)
(* the rest of it can be decoded.                                             *)
Origins ==
  [sourceType : {"local", "git", "other"}, extension : {"", ".json", ".txt"},
   cloned : BOOLEAN, readable : BOOLEAN, apiKey : BOOLEAN, envApiKey : BOOLEAN]

-----------------------------------------------------------------------------
checkFileExtension(o) == o.extension # ".txt"

readFile(o) == o.readable

readFileFromGit(o) == checkFileExtension(o) /\ o.cloned /\ readFile(o)

readFileFromLocal(o) == checkFileExtension(o) /\ readFile(o)

\* A local file has a default path, one in git has none.
readFileFromSource(o) ==
  \/ o.sourceType = "git" /\ o.extension # "" /\ readFileFromGit(o)
  \/ o.sourceType = "local" /\ readFileFromLocal(o)

\* UnmarshalJSON and UnmarshalYAML of an action: an error rejects the file.
validateHttpFields(action) == action.type = "http" => action.validFields

UnmarshalAction(action) ==
  [action EXCEPT !.type = IF @ = "" THEN "custom" ELSE @]

\* JEC_API_KEY takes the place of the key in the file.
ApiKeyFound(o) == o.apiKey \/ o.envApiKey

\* Mutant: a git action needs no git options.
ValidSourceAny(action) == action.sourceType \in {"local", "git"} /\ action.filepath # ""

\* validate, of one action.
ValidSource(action) ==
  /\ action.sourceType \in {"local", "git"} /\ action.filepath # ""
  /\ action.sourceType = "git" => action.gitOptions # "none"

validate(o, actions) ==
  /\ ApiKeyFound(o)
  /\ DOMAIN actions # {}
  /\ \A a \in DOMAIN actions : ValidSource(actions[a])

\* Read returns a configuration and no error.
Accepted(o, actions) ==
  /\ readFileFromSource(o)
  /\ \A a \in DOMAIN actions : validateHttpFields(actions[a])
  /\ validate(o, actions)

(* addHomeDirPrefixToActionMappings makes the file path of a local action a   *)
(* place of the local file system; that of a git action stays relative until  *)
(* its repository is known.                                                   *)
addHomeDirPrefix(action) == IF action.sourceType = "local" THEN "local" ELSE "relative"

\* What Read returns for an accepted file.
Mappings(actions) ==
  [a \in DOMAIN actions |->
     LET action == UnmarshalAction(actions[a]) IN
       [type |-> action.type, sourceType |-> action.sourceType,
        gitOptions |-> action.gitOptions, dir |-> addHomeDirPrefix(action)]]

\* GitActions: the options of every action that has some, a local one too.
GitActions(mappings) ==
  {mappings[a].gitOptions : a \in DOMAIN mappings} \ {"none"}

\* AddRepositoryPathToGitActionFilepaths
AddRepositoryPath(mappings, repositories) ==
  [a \in DOMAIN mappings |->
     IF mappings[a].sourceType = "git" /\ mappings[a].gitOptions \in repositories
     THEN [mappings[a] EXCEPT !.dir = mappings[a].gitOptions] ELSE mappings[a]]
=============================================================================
