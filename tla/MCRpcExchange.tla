--------------------------- MODULE MCRpcExchange ---------------------------
(***************************************************************************)
(* Instances of RpcExchange for TLC.  A request without parameters has 30  *)
(* characters, so that two parameters may or may not fit in 45.            *)
(***************************************************************************)
EXTENDS RpcExchange

Param(op, name, data) == [op |-> op, name |-> <<name>>, data |-> data]
MCParams ==
  { Param("int", "a", <<"1">>), Param("int", "co", <<"0">>),
    Param("bool", "a", <<"true">>), Param("null", "b", <<>>),
    Param("double", "b", <<"-", "2">>),
    Param("str", "a", <<"\"", "\\">>), Param("str", "id", <<>>), Param("str", "b", <<"<x>">>),
    Param("array", "b", <<>>), Param("ints", "b", <<<<"1">>>>),
    Param("array", "a", << << <<<<"a">>, <<"1">>>> >>, << <<<<"a">>, <<"2">>>>, <<<<"b">>, <<"0">>>> >> >>) }
Exponents == { Param("double", "a", <<"1", "e", "+", "2", "0">>) }
Get == <<"g", "e", "t">>
MCTables ==
  [methods |-> {<<"m">>, <<"*">>, Get}, events |-> {}, attrs |-> {<<"v">>, Get}]
\* A method whose name begins the one of an internal method.
PrefixTables == [MCTables EXCEPT !.methods = @ \union {<<"g">>}]
MCInternal == {<<"*">>, Get}
MCMethods == {<<"m">>, <<"*">>, Get}
MCCalled == {<<"m">>, <<"*">>, <<"x">>}
MCIds == {<<"5">>, UndefId}
OneId == {<<"5">>}
\* A directory with a socket, two paths to it, a link elsewhere and a file.
DirEntry(name, link) == [name |-> name, link |-> link]
MCEntries ==
  {DirEntry(<<"_", "1">>, NoKey), DirEntry(<<"a">>, <<"_", "1">>),
   DirEntry(<<"b">>, <<"_", "1">>), DirEntry(<<"l">>, <<"_", "/">>),
   DirEntry(<<"f">>, NoKey)}
\* Requests for a relay: one for the service, one for another, one without a
\* service, one that is cut, one with an array for its parameters, and one
\* whose parameters come first and have the name "method".
RequestWith(service, params) ==
  Version \o Quoted(<<"method">>) \o <<":", " ">> \o Quoted(service \o <<"m">>) \o
  <<",">> \o Quoted(<<"id">>) \o <<":", "5", ",">> \o Quoted(<<"params">>) \o
  <<":">> \o params \o <<"}">>
Request(service) == RequestWith(service, <<"{", "}">>)
ParamsFirst ==
  Version \o Quoted(<<"params">>) \o <<":", "{">> \o Quoted(<<"method">>) \o <<":">> \o
  Quoted(<<"svc", ".">>) \o <<"}", ",">> \o Quoted(<<"method">>) \o <<":">> \o
  Quoted(<<"x", ".", "m">>) \o <<"}">>
MCTexts ==
  {Request(<<"svc", ".">>), Request(<<"x", ".">>), Request(<<>>),
   SubSeq(Request(<<"svc", ".">>), 1, 12), SubSeq(Request(<<"svc", ".">>), 1, 20),
   RequestWith(<<"svc", ".">>, <<"[", "1", "]">>), ParamsFirst}
\* A request of one parameter has about 40 characters, one of two about 50.
MCSizes == (30..54) \union {60, 250}
MCCodes == {<<"7">>, <<"0">>}
=============================================================================
