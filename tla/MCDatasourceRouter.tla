------------------------ MODULE MCDatasourceRouter ------------------------
(* DatasourceRouter for two queries and two plugins.                       *)
EXTENDS DatasourceRouter

CONSTANTS q1, q2, p1, p2

\* The first plugin serves both scopes, the second only that of the first query.
SomeScopes == {<<p1, q1>>, <<p1, q2>>, <<p2, q1>>}
=============================================================================
