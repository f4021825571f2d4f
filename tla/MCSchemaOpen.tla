----------------------------- MODULE MCSchemaOpen -----------------------------
(* Opening, for TLC: the five migrations, and what schema.sql creates as far  *)
(* as one of them is about it.                                                *)
EXTENDS SchemaOpen

MCSchema == <<"events", "session index", "stats index", "sessions", "body_archive">>

Migration(columns, ensures, drops) == [columns |-> columns, ensures |-> ensures, drops |-> drops]

MCMigrations == <<Migration({"transcript_content", "transcript_role"}, {}, {}),
                  Migration({}, {"session index"}, {"old index"}),
                  Migration({"req_tool_names"}, {}, {}),
                  Migration({}, {"stats index"}, {}),
                  Migration({}, {"body_archive"}, {})>>
=============================================================================
