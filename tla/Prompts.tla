-------------------------------- MODULE Prompts --------------------------------
(***************************************************************************)
(* PromptTemplateRepo (prompts/template.ts): the versions of the prompts in *)
(* the table prompt_templates, saved, published and deleted in any order.  *)
(* Every operation is a statement or a transaction on one connection, and  *)
(* so a step; one that the table's constraints refuse changes nothing.     *)
(* Variables and model hints change with the body and are left out.        *)
(***************************************************************************)
EXTENDS Naturals

CONSTANTS TemplateIds, TemplateNames, Versions, Bodies,
          NoTemplate  \* no id

ASSUME PromptsConfig == NoTemplate \notin TemplateIds

VARIABLES templates,  \* id -> row
          published   \* name -> the id last published under it, until it is deleted (auxiliary)

promptVars == <<templates, published>>

Template == [name: TemplateNames, version: Versions, body: Bodies, isLatest: BOOLEAN]

PromptTypeOK ==
    /\ templates \in UNION {[S -> Template] : S \in SUBSET TemplateIds}
    /\ published \in [TemplateNames -> TemplateIds \cup {NoTemplate}]

PromptInit == /\ templates = [t \in {} |-> NoTemplate]
              /\ published = [n \in TemplateNames |-> NoTemplate]

-----------------------------------------------------------------------------
Put(t, row) == [u \in DOMAIN templates \cup {t} |-> IF u = t THEN row ELSE templates[u]]

(* mutant: a row that is there is replaced, its name and version too *)
Rewritten_Renamed(t, name, version, body) ==
    [templates[t] EXCEPT !.name = name, !.version = version, !.body = body]

(* ON CONFLICT(id) DO UPDATE: the text alone is replaced. *)
Rewritten(t, name, version, body) == [templates[t] EXCEPT !.body = body]

(* A new row must be the only one of its name and version.                 *)
Save(t, name, version, body) ==
    /\ IF t \in DOMAIN templates
       THEN templates' = Put(t, Rewritten(t, name, version, body))
       ELSE /\ \A u \in DOMAIN templates :
                  <<templates[u].name, templates[u].version>> # <<name, version>>
            /\ templates' = Put(t, [name |-> name, version |-> version, body |-> body,
                                    isLatest |-> FALSE])
    /\ UNCHANGED published

(* Its versions are unset by their name, then the one is set by its id. *)
Publish(t) ==
    /\ t \in DOMAIN templates
    /\ templates' = [u \in DOMAIN templates |->
                       IF templates[u].name = templates[t].name
                       THEN [templates[u] EXCEPT !.isLatest = (u = t)] ELSE templates[u]]
    /\ published' = [published EXCEPT ![templates[t].name] = t]

Delete(t) ==
    /\ t \in DOMAIN templates
    /\ templates' = [u \in DOMAIN templates \ {t} |-> templates[u]]
    /\ published' = [n \in TemplateNames |->
                       IF published[n] = t THEN NoTemplate ELSE published[n]]

PromptNext ==
    \E t \in TemplateIds :
       \/ \E name \in TemplateNames, version \in Versions, body \in Bodies :
             Save(t, name, version, body)
       \/ Publish(t)
       \/ Delete(t)

PromptSpec == PromptInit /\ [][PromptNext]_promptVars

-----------------------------------------------------------------------------
(* What getLatest may find under a name. *)
Latest(n) == {t \in DOMAIN templates : templates[t].name = n /\ templates[t].isLatest}

(* Whatever was saved over, published and deleted, and in whatever order,  *)
(* what getLatest serves under a name is the one version that was          *)
(* published under it last, and nothing once that version was deleted:     *)
(* no older version comes back, and none moves to another name with it.    *)
LatestIsPublished ==
    /\ PromptTypeOK
    /\ \A n \in TemplateNames : Latest(n) = {published[n]} \ {NoTemplate}
=============================================================================
