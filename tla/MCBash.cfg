CONSTANTS
  McpServers <- MCMcpServers
  Lex <- MCLex
  Declared <- MCDeclared
  Arities <- MCArities
  Spelled <- MCSpelled
  Cwd <- MCCwd
  Home <- MCHome
  Links <- MCLinks
  Existing <- MCExisting
  Directories <- MCDirectories
  SafePaths <- MCSafePaths
  InfraDirs = {}
  InfraExcluded = {}
  Simples <- MCSimples
  Wrappers <- MCWrappers
  Redirects <- MCRedirects
  Policies <- MCPolicies
  Exposures <- MCExposures
  ToolCalls <- MCToolCalls
  ListedSkills <- MCListedSkills
  MaxSteps = 3
SPECIFICATION Spec
CHECK_DEADLOCK FALSE
PROPERTIES
  NoCommandSlips
  NoFileSlips
  ApprovedIsNotAskedAgain
  HiddenToolsAreRefused
