------------------------------ MODULE MCSeparate ------------------------------
(* Small instances for TLC of three components that share no state and no   *)
(* step: the catalog, the prompt templates and the MCP client.  One of them *)
(* is chosen at the start and the others never move, so that one run        *)
(* explores the three side by side and not their product.                   *)
EXTENDS Catalog, Prompts, McpClient, TLC

VARIABLE part  \* "catalog", "prompts" or "mcp"

MCRow(name, protocol, url, key) ==
    [name |-> name, protocol |-> protocol, url |-> url, key |-> key]

(* 'a-b' and 'a/b' are normalized alike, and so are provider 'seed' with   *)
(* 'a-b' and provider 'seed-a' with 'b'.                                   *)
MCModelId ==
    [x \in ProviderIds \X ModelNames |->
       IF x \in {<<"seed", "a-b">>, <<"seed", "a/b">>, <<"seed-a", "b">>} THEN "pm1"
       ELSE IF x[1] = "seed" THEN "pm2" ELSE "pm3"]

MCSeedProviders == <<[id |-> "seed", row |-> MCRow("one", "OpenAI", "url1", "key1")]>>
MCSeedVirtuals == <<[id |-> "vm", name |-> "vm"]>>

MCNewProviders == {MCRow("one", "Gemini", "url1", Blank)}

MCPatches == {[protocol |-> "Gemini"], [url |-> "url2", key |-> "key2"], [name |-> "two"],
              [name |-> Blank, url |-> "url2"], [key |-> Blank]}

MCSyncs == {<<"b">>, <<"a-b", "b">>, <<"a-b", "a/b">>}

-----------------------------------------------------------------------------
Init == /\ part \in {"catalog", "prompts", "mcp"}
        /\ CatalogInit /\ PromptInit /\ McpInit

Next ==
    /\ UNCHANGED part
    /\ \/ part = "catalog" /\ CatalogNext /\ UNCHANGED <<promptVars, mcpVars>>
       \/ part = "prompts" /\ PromptNext /\ UNCHANGED <<catalogVars, mcpVars>>
       \/ part = "mcp" /\ McpNext /\ UNCHANGED <<catalogVars, promptVars>>

vars == <<part, catalogVars, promptVars, mcpVars>>

Spec == Init /\ [][Next]_vars /\ (part = "mcp" => McpFairness)
=============================================================================
