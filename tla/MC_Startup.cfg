\* Two compute nodes and two memory nodes, three threads over two QPs per
\* pair of nodes, both builds.
CONSTANTS
  NumClients = 2
  NumServers = 2
  NumThreads = 3
  MAX_QPS = 2
SPECIFICATION Spec
INVARIANTS TypeOK MessagesMatch CompletionsAccounted
PROPERTIES StartupCompletes
