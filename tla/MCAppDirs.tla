------------------------------ MODULE MCAppDirs -----------------------------
(* The instance of AppDirs for TLC: the directories of an app with a cache. *)
EXTENDS AppDirs

MCPaths == {
  <<"data", "app">>, <<"data", "app", "files">>,
  <<"data", "app", "cache">>, <<"data", "app", "cache", "image">>,
  <<"obb", "app">> }
=============================================================================
