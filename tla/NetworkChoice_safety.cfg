CONSTANTS
  lan = lan
  e1 = e1
  e2 = e2
  Ifs = {lan, e1, e2}
  Lan = lan
  LinksOf <- LinksVal
  Reflectors <- ReflectorsVal
  Choices <- ChoicesVal
  ray = ray
  home = home
  other = other
  IPs <- IPsVal
  PrivateIPs <- PrivateIPsVal
  MaxChanges = 2
SPECIFICATION FairSpec
PROPERTIES AutoAvoidsUplinks  NoDoubleReflection SelectionFollows 
CHECK_DEADLOCK FALSE
