---------------------------- MODULE MCApplication ----------------------------
\* Two applications of one process, one of which is run: the Pulsar and the
\* Pyroscope plugin, a module with a service that uses producers, and one with
\* a controller.
EXTENDS Application, TLC

Plugins == <<"NewPulsarServer", "NewPulsarProducerManager", "NewPyroscopeAgent">>
AllConstructors == {Plugins[i] : i \in 1..3} \cup {"NewService", "NewController"}
ModuleControllers == ("orders" :> <<>>) @@ ("users" :> <<"NewController">>)
ModuleProvides == ("orders" :> <<"NewService">>) @@ ("users" :> <<>>)
Dependencies ==
  [c \in AllConstructors |->
     CASE c = "NewPulsarProducerManager" -> {"NewPulsarServer"}
       [] c = "NewService" -> {"NewPulsarProducerManager"}
       [] OTHER -> {}]
Needed == {Plugins[i] : i \in 1..3} \cup {"NewService"}
Lists == {<<"NewService">>}
=============================================================================
